---- MODULE Spec2Model ----
(***************************************************************************)
(* A model of bmad-autopilot's concurrency- and safety-critical core:      *)
(*   - the sprint-status store (bmad_mcp/sprint.py),                       *)
(*   - the backup manager and code modifier (bmad_mcp/auto_fix/modifier.py)*)
(*   - the formatting fix strategy (auto_fix/strategies/formatting.py),    *)
(*   - the aggregate views of the store, the auto-fix handler with its     *)
(*     safety guard and test runner, the external processes, the two       *)
(*     issue extractors, the review handler and the execute handler.       *)
(* Each subsystem has its own specification over its own variables; the    *)
(* variables of the other subsystems stay at their initial values.         *)
(***************************************************************************)
EXTENDS Integers, Sequences, FiniteSets, TLC

\* State of the sprint-status store and of the processes using it.
VARIABLES
    storeIno,   \* inode the store path names; 0 when the file does not exist
    inoData,    \* inode -> sequence of lines written to it so far
    lockHolder, \* process holding flock(LOCK_EX) on .sprint-status.lock; 0 = free
    pc,         \* position of each writer inside update_story_status
    arg,        \* <<story_key, new_status>> of the call in progress
    data,       \* the writer's local dict after load + mutate
    tmpIno,     \* inode of the writer's mkstemp file; 0 = none
    exc,        \* the call in progress is unwinding with an exception
    ret,        \* outcome of the writer's last finished call
    rdPc,       \* position of the lock-free reader
    rdIno,      \* inode the reader has open
    rdResult,   \* <<>> before the first read, then <<dict>> of the last read
    store0,     \* history: the dict the store held initially
    applied,    \* history: the calls whose os.replace happened, in that order
    overlap     \* history: some call began while another call was in progress

sprintVars == <<storeIno, inoData, lockHolder, pc, arg, data, tmpIno, exc, ret,
                rdPc, rdIno, rdResult, store0, applied, overlap>>

\* State of one process using BackupManager and CodeModifier.
VARIABLES
    fs,        \* path -> [data, mtime]; mtime -1 marks a path that does not exist
    bak,       \* backup path -> [data, mtime], the .bak files in the backup dir
    active,    \* BackupManager.active_backups: resolved path -> backup path
    now,       \* wall clock, seconds
    opPc,      \* position inside write_file; "idle" between operations
    opTarget,  \* target_path of the latest write_file
    opContent, \* bytes the latest write_file has to write
    opTmp,     \* temp_path of the latest write_file
    opPrev,    \* history: what the target held when the latest write_file began
    nops,      \* operations started so far
    last,      \* history: the last operation started
    wrote,     \* history: <<path, data before>> while the last finished operation
               \*   is a write_file that replaced an existing file, else <<>>
    snap,      \* history: path -> data it held at its latest create_backup
    created,   \* history: the backup paths create_backup has returned
    ncreated   \* history: the number of backups create_backup has made

modVars == <<fs, bak, active, now, opPc, opTarget, opContent, opTmp, opPrev, nops,
             last, wrote, snap, created, ncreated>>

\* State of a cleanup_old_backups call that runs one file at a time.
VARIABLES
    clTodo     \* the backups glob("*.bak") listed and the loop has yet to visit

cleanupVars == <<clTodo>>

\* State of one handle_execute_implementation call.
VARIABLES
    exPc,      \* position inside the handler
    exIn,      \* the call's input: the key's validity and the story's files
    exStatus,  \* the story's entry in development_status
    exResp     \* <<>>, then <<the response returned>>

execVars == <<exPc, exIn, exStatus, exResp>>

\* State of one FixStrategyEngine.fix_issues run.
VARIABLES
    src,        \* path -> source text on disk, or NoSrc
    src0,       \* history: src when fix_issues was called
    issues,     \* the list handed to fix_issues
    results,    \* the FixResult list built so far
    strategies, \* the engine's registry, in registration order
    dryRun,     \* engine.dry_run
    hasBlack,   \* the black executable is on the search path
    hasIsort,   \* the isort executable is on the search path
    fpc,        \* position inside fix_issues / apply_fix
    target,     \* file_path of the apply_fix in progress
    original,   \* original_content of the apply_fix in progress
    changes,    \* changes list of the apply_fix in progress
    applyLog    \* history: <<issue index, strategy index>> of each apply_fix call

fixVars == <<src, src0, issues, results, strategies, dryRun, hasBlack, hasIsort,
             fpc, target, original, changes, applyLog>>

\* The views over the store: get_stories_by_status, get_status_summary,
\* get_stories_for_epic.
VARIABLES
    viewDev,    \* development_status as loaded: a sequence of <<key, status>>
    viewOp,     \* the view called last, with its argument
    viewOut     \* what it returned

viewVars == <<viewDev, viewOp, viewOut>>

\* State of one handle_auto_fix invocation.
VARIABLES
    hpc,        \* position inside handle_auto_fix
    hIn,        \* the call and the configuration it runs under
    srcKb,      \* path -> size of the file in KB
    hGit,       \* <<>>, or <<what git status did, what check_git_status returned>>
    hReview,    \* whether the review file exists: "unknown" until looked for
    hTest,      \* <<>>, or <<what the test runner did, what run_tests returned>>
    hReport,    \* <<>>, or <<the results save_report wrote to auto-fix-report.md>>
    hResp       \* the response handed back

autoVars == <<hpc, hIn, srcKb, hGit, hReview, hTest, hReport, hResp>>

\* State of one operation that starts external processes.
VARIABLES
    prOp,       \* <<operation, its argument>>; <<>> before the call
    prPc,       \* position of the operation
    prLeft,     \* the commands the operation has still to start
    prRcs,      \* exit codes of the children that have exited, in order
    prChild,    \* the child in flight: its command, the timeout of the wait, its state
    prSpawned,  \* history: number of children started
    prOut       \* how the operation ended

procVars == <<prOp, prPc, prLeft, prRcs, prChild, prSpawned, prOut>>

\* The issue extractors applied to one review text.
VARIABLES
    psReview,   \* the review: the convention it is written in and its blocks
    psOp,       \* the extractor called last
    psOut       \* the issues it returned

parseVars == <<psReview, psOp, psOut>>

\* One call of handle_review_story.
VARIABLES
    rvPc,       \* position inside the handler
    rvIn,       \* the call: is the key well-formed, the story's status before
    rvDiff,     \* how get_git_diff ended: "none", "ok", "fail"
    rvLlm,      \* how call_llm ended: "none", "returned", "raised"
    rvResult,   \* <<>>, then <<the dict review_story returned>>
    rvSaved,    \* <<>>, then <<the review file's content>>
    rvStatus,   \* the story's entry in development_status
    rvResp      \* <<>>, then <<the response returned>>

reviewVars == <<rvPc, rvIn, rvDiff, rvLlm, rvResult, rvSaved, rvStatus, rvResp>>

vars == <<sprintVars, modVars, fixVars, viewVars, autoVars, procVars, parseVars,
          reviewVars, cleanupVars, execVars>>

\* What the steps of one subsystem leave alone.
otherThanSprint == <<modVars, fixVars, viewVars, autoVars, procVars, parseVars, reviewVars, cleanupVars, execVars>>
otherThanMod == <<sprintVars, fixVars, viewVars, autoVars, procVars, parseVars, reviewVars, cleanupVars, execVars>>
otherThanFix == <<sprintVars, modVars, viewVars, autoVars, procVars, parseVars, reviewVars, cleanupVars, execVars>>
otherThanViews == <<sprintVars, modVars, fixVars, autoVars, procVars, parseVars, reviewVars, cleanupVars, execVars>>
otherThanAuto == <<sprintVars, modVars, viewVars, procVars, parseVars, reviewVars, cleanupVars, execVars>>
otherThanProc == <<sprintVars, modVars, fixVars, viewVars, autoVars, parseVars, reviewVars, cleanupVars, execVars>>
otherThanParse == <<sprintVars, modVars, fixVars, viewVars, autoVars, procVars, reviewVars, cleanupVars, execVars>>
otherThanReview == <<sprintVars, modVars, fixVars, viewVars, autoVars, procVars, parseVars, cleanupVars, execVars>>
otherThanCleanup == <<sprintVars, fixVars, viewVars, autoVars, procVars, parseVars, reviewVars, execVars>>
otherThanExec == <<sprintVars, modVars, fixVars, viewVars, autoVars, procVars, parseVars, reviewVars,
                   cleanupVars>>

(***************************************************************************)
(* Part 1.  The sprint-status store.                                       *)
(***************************************************************************)

\* Number of processes that call update_story_status concurrently; each is
\* one tool invocation and makes one call.
NumProcs == 2

Procs == 1..NumProcs

\* sprint.py:16
VALID_STATUSES == {"backlog", "ready-for-dev", "in-progress", "review", "done", "blocked"}

\* Story keys and statuses the callers pass in.
StoryKeys == {"1-1-auth", "1-2-login"}
CallStatuses == {"in-progress", "done", "planning", "bogus"}
\* The calls made: every key with every valid status, and one key with each
\* status that line 99 rejects.
CallArgs ==
    {c \in StoryKeys \X CallStatuses : c[2] \in VALID_STATUSES \/ c[1] = "1-1-auth"}


\* Inodes: 1 is the store file as first found; each call may create one
\* temporary file.
InoOf(p) == 1 + p
Inodes == 1..(1 + NumProcs)

\* A parsed store: whether the unrelated top-level section "project" is there,
\* whether "development_status" is there, and its entries in dict order.
EmptyData == [proj |-> FALSE, hasDev |-> FALSE, dev |-> <<>>]

RECURSIVE EntryLines(_)
EntryLines(dev) ==
    IF dev = <<>> THEN <<>>
    ELSE << <<"E", dev[1][1], dev[1][2]>> >> \o EntryLines(Tail(dev))

\* yaml.dump(data, f, default_flow_style=False, sort_keys=False): one line per
\* top-level key and one per entry of development_status, in dict order.
yaml_dump(d) ==
    IF ~d.proj /\ ~d.hasDev THEN << <<"S", "{}", "">> >>
    ELSE (IF d.proj THEN << <<"S", "project", "demo">> >> ELSE <<>>)
      \o (IF ~d.hasDev THEN <<>>
          ELSE IF d.dev = <<>> THEN << <<"S", "development_status", "{}">> >>
          ELSE << <<"S", "development_status", "">> >> \o EntryLines(d.dev))

RECURSIVE EntriesOf(_)
EntriesOf(lines) ==
    IF lines = <<>> THEN <<>>
    ELSE IF lines[1][1] = "E"
         THEN << <<lines[1][2], lines[1][3]>> >> \o EntriesOf(Tail(lines))
         ELSE EntriesOf(Tail(lines))

\* yaml.safe_load(f) or {}: whatever lines the file holds are what is parsed.
yaml_load(lines) ==
    [proj   |-> \E i \in 1..Len(lines) : lines[i][1] = "S" /\ lines[i][2] = "project",
     hasDev |-> \E i \in 1..Len(lines) : lines[i][1] = "S" /\ lines[i][2] = "development_status",
     dev    |-> EntriesOf(lines)]

\* load_sprint_status on an open inode; FileNotFoundError gives {}.
load_sprint_status(ino) ==
    IF ino = 0 THEN EmptyData ELSE yaml_load(inoData[ino])

\* data.get("development_status", {}).get(story_key)
dev_get(d, k) ==
    IF \E i \in 1..Len(d.dev) : d.dev[i][1] = k
    THEN (CHOOSE i \in 1..Len(d.dev) : d.dev[i][1] = k)
    ELSE 0

dev_value(d, k) ==
    IF dev_get(d, k) = 0 THEN "None" ELSE d.dev[dev_get(d, k)][2]

\* data["development_status"] = {story_key: new_status}: what set_status must
\* not do.
set_status_fresh(d, k, s) ==
    [proj |-> d.proj, hasDev |-> TRUE, dev |-> << <<k, s>> >>]

\* data["development_status"][story_key] = new_status, creating the section
\* when missing; an existing key keeps its position, a new one goes last.
set_status(d, k, s) ==
    [proj   |-> d.proj,
     hasDev |-> TRUE,
     dev    |-> IF dev_get(d, k) = 0 THEN Append(d.dev, <<k, s>>)
                ELSE [d.dev EXCEPT ![dev_get(d, k)] = <<k, s>>]]

\* update_story_status line 99: new_status in VALID_STATUSES.
status_any(s) == TRUE
status_accepted(s) == s \in VALID_STATUSES

\* fcntl.flock(f, LOCK_EX) returns only when no other process holds the lock.
flock_nolock == TRUE
flock_granted == lockHolder = 0

\* tempfile.mkstemp(suffix='.tmp', dir=dir_path): a fresh file beside the store.
open_store_for_write(p) == IF storeIno = 0 THEN InoOf(p) ELSE storeIno
mkstemp(p) == InoOf(p)

\* The stores a project can start with.
InitStores ==
    { EmptyData,
      [proj |-> TRUE, hasDev |-> TRUE, dev |-> << <<"1-1-auth", "backlog">> >>] }

\* The store file holds s0 and no process has started.
SprintStart(s0) ==
    /\ store0 = s0
    /\ storeIno = IF store0 = EmptyData THEN 0 ELSE 1
    /\ inoData = [i \in Inodes |-> IF i = 1 /\ store0 # EmptyData
                                   THEN yaml_dump(store0) ELSE <<>>]
    /\ lockHolder = 0
    /\ pc = [p \in Procs |-> "idle"]
    /\ arg = [p \in Procs |-> <<"", "">>]
    /\ data = [p \in Procs |-> EmptyData]
    /\ tmpIno = [p \in Procs |-> 0]
    /\ exc = [p \in Procs |-> FALSE]
    /\ ret = [p \in Procs |-> "none"]
    /\ rdPc = "idle"
    /\ rdIno = 0
    /\ rdResult = <<>>
    /\ applied = <<>>
    /\ overlap = FALSE

InitSprint == \E s0 \in InitStores : SprintStart(s0)

\* An inode's blocks are freed once no path names it and no reader has it open.
FreeInode(d, ino, keepA, keepB) ==
    IF ino = 0 \/ ino = keepA \/ ino = keepB THEN d ELSE [d EXCEPT ![ino] = <<>>]

\* update_story_status, lines 99-100: validation before anything else.
Call(p, k, s) ==
    /\ pc[p] = "idle"
    /\ UNCHANGED otherThanSprint
    /\ arg' = [arg EXCEPT ![p] = <<k, s>>]
    /\ IF ~status_accepted(s)
       THEN /\ ret' = [ret EXCEPT ![p] = "ValueError"]
            /\ pc' = [pc EXCEPT ![p] = "done"]
            /\ UNCHANGED overlap
       ELSE /\ pc' = [pc EXCEPT ![p] = "lock"]
            /\ ret' = [ret EXCEPT ![p] = "running"]
            /\ overlap' = (overlap \/ \E q \in Procs \ {p} : pc[q] \notin {"idle", "done"})
    /\ UNCHANGED <<storeIno, inoData, lockHolder, data, tmpIno, exc,
                   rdPc, rdIno, rdResult, store0, applied>>

\* _sprint_lock.__enter__: flock(LOCK_EX).
Acquire(p) ==
    /\ pc[p] = "lock"
    /\ flock_granted
    /\ UNCHANGED otherThanSprint
    /\ lockHolder' = p
    /\ pc' = [pc EXCEPT ![p] = "load"]
    /\ UNCHANGED <<storeIno, inoData, arg, data, tmpIno, exc, ret,
                   rdPc, rdIno, rdResult, store0, applied, overlap>>

\* Lines 104-109 and save_sprint_status line 49: load the store, set the key
\* in the local dict, and create the empty temporary file for the save.
LoadMutate(p) ==
    /\ pc[p] = "load"
    /\ UNCHANGED otherThanSprint
    /\ data' = [data EXCEPT ![p] = set_status(load_sprint_status(storeIno), arg[p][1], arg[p][2])]
    /\ tmpIno' = [tmpIno EXCEPT ![p] = mkstemp(p)]
    /\ inoData' = [inoData EXCEPT ![mkstemp(p)] = <<>>]
    /\ pc' = [pc EXCEPT ![p] = "dump"]
    /\ UNCHANGED <<storeIno, lockHolder, arg, exc, ret,
                   rdPc, rdIno, rdResult, store0, applied, overlap>>

\* Lines 104 and 27-28: reading or parsing the store raises (the file cannot
\* be read, it is not YAML); the exception leaves the with block through
\* the finally clause.
LoadFails(p) ==
    /\ pc[p] = "load"
    /\ UNCHANGED otherThanSprint
    /\ exc' = [exc EXCEPT ![p] = TRUE]
    /\ pc' = [pc EXCEPT ![p] = "unlock"]
    /\ UNCHANGED <<storeIno, inoData, lockHolder, arg, data, tmpIno, ret,
                   rdPc, rdIno, rdResult, store0, applied, overlap>>

\* Lines 51-52: yaml.dump writes the document to the temporary file piecewise;
\* leaving the with block closes it.
DumpLine(p) ==
    /\ pc[p] = "dump"
    /\ UNCHANGED otherThanSprint
    /\ LET full == yaml_dump(data[p])
           n    == Len(inoData[tmpIno[p]])
       IN /\ inoData' = [inoData EXCEPT ![tmpIno[p]] = Append(@, full[n + 1])]
          /\ pc' = IF n + 1 < Len(full) THEN pc ELSE [pc EXCEPT ![p] = "replace"]
    /\ UNCHANGED <<storeIno, lockHolder, arg, data, tmpIno, exc, ret,
                   rdPc, rdIno, rdResult, store0, applied, overlap>>

\* Line 54: os.replace(temp_path, path).
Replace(p) ==
    /\ pc[p] = "replace"
    /\ UNCHANGED otherThanSprint
    /\ storeIno' = tmpIno[p]
    /\ inoData' = FreeInode(inoData, storeIno, tmpIno[p], IF rdPc = "read" THEN rdIno ELSE 0)
    /\ tmpIno' = [tmpIno EXCEPT ![p] = 0]
    /\ applied' = Append(applied, arg[p])
    /\ data' = [data EXCEPT ![p] = EmptyData]
    /\ pc' = [pc EXCEPT ![p] = "unlock"]
    /\ UNCHANGED <<lockHolder, arg, exc, ret,
                   rdPc, rdIno, rdResult, store0, overlap>>

\* Lines 55-59: the write or the rename raises (disk full, I/O error); the
\* temporary file is unlinked and the exception propagates.
SaveFails(p) ==
    /\ pc[p] \in {"dump", "replace"}
    /\ UNCHANGED otherThanSprint
    /\ inoData' = FreeInode(inoData, tmpIno[p], storeIno, 0)
    /\ tmpIno' = [tmpIno EXCEPT ![p] = 0]
    /\ exc' = [exc EXCEPT ![p] = TRUE]
    /\ data' = [data EXCEPT ![p] = EmptyData]
    /\ pc' = [pc EXCEPT ![p] = "unlock"]
    /\ UNCHANGED <<storeIno, lockHolder, arg, ret,
                   rdPc, rdIno, rdResult, store0, applied, overlap>>

\* sprint.py lines 27-28: finally: flock(f, LOCK_UN); who holds the lock
\* after p has left the with block.
flock_unlock_unless_raised(p) == IF lockHolder = p /\ ~exc[p] THEN 0 ELSE lockHolder
flock_unlock(p) == IF lockHolder = p THEN 0 ELSE lockHolder

\* _sprint_lock.__exit__ (the finally clause): flock(LOCK_UN), on the normal
\* path and on the exceptional one.
Unlock(p) ==
    /\ pc[p] = "unlock"
    /\ UNCHANGED otherThanSprint
    /\ lockHolder' = flock_unlock(p)
    /\ IF exc[p]
       THEN /\ ret' = [ret EXCEPT ![p] = "OSError"]
            /\ exc' = [exc EXCEPT ![p] = FALSE]
            /\ pc' = [pc EXCEPT ![p] = "done"]
       ELSE /\ pc' = [pc EXCEPT ![p] = "verify"]
            /\ UNCHANGED <<ret, exc>>
    /\ UNCHANGED <<storeIno, inoData, arg, data, tmpIno,
                   rdPc, rdIno, rdResult, store0, applied, overlap>>

\* Lines 112-113: actual == new_status, actual re-read from the store.
verified_always(p) == TRUE
verified(p) == dev_value(load_sprint_status(storeIno), arg[p][1]) = arg[p][2]

\* Lines 111-113: re-read outside the lock and compare.
Verify(p) ==
    /\ pc[p] = "verify"
    /\ UNCHANGED otherThanSprint
    /\ ret' = [ret EXCEPT ![p] =
                 IF verified(p) THEN "True" ELSE "False"]
    /\ pc' = [pc EXCEPT ![p] = "done"]
    /\ UNCHANGED <<storeIno, inoData, lockHolder, arg, data, tmpIno, exc,
                   rdPc, rdIno, rdResult, store0, applied, overlap>>

\* A reader (get_development_status and the views built on it) opens the
\* store without taking the lock ...
ReaderOpen ==
    /\ rdPc = "idle"
    /\ UNCHANGED otherThanSprint
    /\ rdIno' = storeIno
    /\ rdPc' = "read"
    /\ UNCHANGED <<storeIno, inoData, lockHolder, pc, arg, data, tmpIno, exc,
                   ret, rdResult, store0, applied, overlap>>

\* ... and parses what the open file holds.
ReaderRead ==
    /\ rdPc = "read"
    /\ UNCHANGED otherThanSprint
    /\ rdResult' = <<load_sprint_status(rdIno)>>
    /\ inoData' = FreeInode(inoData, rdIno, storeIno, 0)
    /\ rdIno' = 0
    /\ rdPc' = "done"
    /\ UNCHANGED <<storeIno, lockHolder, pc, arg, data, tmpIno, exc,
                   ret, store0, applied, overlap>>

(***************************************************************************)
(* Part 2.  BackupManager and CodeModifier (auto_fix/modifier.py).         *)
(***************************************************************************)

\* Number of BackupManager / CodeModifier operations in one run.
MaxOps == 3
\* The clock runs from 0 to MaxTime seconds.
MaxTime == 1
\* Number of distinct values uuid4().hex[:8] takes in the model.
NumUids == 2

\* Paths are sequences of segments below the filesystem root.
Root == <<"proj">>
FileA == <<"proj", "src", "a.py">>
FileOut == <<"etc", "passwd">>
LinkOut == <<"proj", "link">>

\* Paths the callers pass in: plain, with '..' segments, through a symlink.
PathsInside == {FileA, <<"proj", "lib", "..", "src", "a.py">>}
PathsOutside == {FileOut, <<"proj", "src", "..", "..", "etc", "passwd">>, LinkOut}
InputPaths == PathsInside \cup PathsOutside

\* What write_file is asked to write: "a" and "bb".
TextContents == {<<97>>, <<98, 98>>}
\* What the project file holds at the start (it may also not exist yet):
\* e-acute in UTF-8, and a byte no UTF-8 text holds.
InitContents == {<<195, 169>>, <<255>>}
\* What a file is overwritten with from outside the modifier.
ExternalContents == {<<98, 98>>}


NoFile == [data |-> <<>>, mtime |-> -1]
Exists(f) == fs[f].mtime >= 0

Parent(p) == SubSeq(p, 1, Len(p) - 1)
\* The name mkstemp(dir=target.parent, prefix=".name", suffix=".tmp") gives.
TempPath(t) == Append(Parent(t), ".tmp")

RealFiles == {FileA, FileOut}
AllFiles == RealFiles \cup {TempPath(f) : f \in RealFiles}

\* Path.resolve(): walk the segments, popping on '..' and following symlinks.
RECURSIVE Walk(_, _)
Walk(done, rest) ==
    IF rest = <<>> THEN done
    ELSE IF Head(rest) = ".."
         THEN Walk(IF done = <<>> THEN <<>> ELSE Parent(done), Tail(rest))
         ELSE IF Append(done, Head(rest)) = LinkOut
              THEN Walk(FileOut, Tail(rest))
              ELSE Walk(Append(done, Head(rest)), Tail(rest))

Resolve(p) == Walk(<<>>, p)

\* PurePath.relative_to(root) succeeds iff root is a prefix of the path.
IsUnder(p, root) == Len(p) >= Len(root) /\ SubSeq(p, 1, Len(root)) = root

\* .relative_to(project_root).as_posix().replace("/", "_")
RECURSIVE JoinUnderscore(_)
JoinUnderscore(segs) ==
    IF Len(segs) <= 1 THEN segs
    ELSE <<Head(segs), "_">> \o JoinUnderscore(Tail(segs))

rel_path(r) == JoinUnderscore(SubSeq(r, Len(Root) + 1, Len(r)))

\* f"{rel_path}_{timestamp}_{u_id}.bak" with timestamp = int(time.time() * 1000)
backup_name(r, u) == [rel |-> rel_path(r), ts |-> now * 1000, uid |-> u]

\* open(..., encoding='utf-8').read() succeeds iff the bytes are well-formed
\* UTF-8: a lead byte followed by the right number of continuation bytes.
IsCont(b) == b >= 128 /\ b <= 191
RECURSIVE Utf8Valid(_)
Utf8Valid(bs) ==
    IF bs = <<>> THEN TRUE
    ELSE IF bs[1] < 128 THEN Utf8Valid(Tail(bs))
    ELSE IF bs[1] >= 194 /\ bs[1] <= 223
         THEN Len(bs) >= 2 /\ IsCont(bs[2]) /\ Utf8Valid(SubSeq(bs, 3, Len(bs)))
    ELSE IF bs[1] >= 224 /\ bs[1] <= 239
         THEN Len(bs) >= 3 /\ IsCont(bs[2]) /\ IsCont(bs[3])
              /\ Utf8Valid(SubSeq(bs, 4, Len(bs)))
    ELSE IF bs[1] >= 240 /\ bs[1] <= 244
         THEN Len(bs) >= 4 /\ IsCont(bs[2]) /\ IsCont(bs[3]) /\ IsCont(bs[4])
              /\ Utf8Valid(SubSeq(bs, 5, Len(bs)))
    ELSE FALSE

\* CodeModifier.validate_path: the resolved path must lie under the root.
validate_path_lexical(p) == IsUnder(p, Root)
validate_path(p) == IsUnder(Resolve(p), Root)

\* restore_backup line 48: an entry exists and its file is on disk.
has_backup_entry_only(r) == r \in DOMAIN active
has_backup(r) == r \in DOMAIN active /\ active[r] \in DOMAIN bak

\* cleanup_old_backups lines 71-75: backups the active table references are skipped.
is_active_never(n) == FALSE
is_active(n) == \E r \in DOMAIN active : active[r] = n

\* cleanup_old_backups lines 73-79: the .bak files that get unlinked.
cleanup_victims(max_age) ==
    {n \in DOMAIN bak : ~is_active(n) /\ now - bak[n].mtime > max_age}

\* write_file lines 110-114: the file the new content is first written to.
mkstemp_in_place(t) == t
mkstemp_path(t) == TempPath(t)

Put(f, k, v) == [x \in DOMAIN f \cup {k} |-> IF x = k THEN v ELSE f[x]]
Drop(f, ks) == [x \in DOMAIN f \ ks |-> f[x]]

\* create_backup line 41: the table is keyed by the resolved path, and the
\* assignment replaces whatever the key held.
record_active_keep_first(r, n) ==
    IF r \in DOMAIN active THEN active ELSE Put(active, r, n)
record_active(r, n) == Put(active, r, n)

\* A record of one operation: its name, the resolved path it is about, its
\* outcome, the max_age of a cleanup, and what `wrote` held when it began.
OpRec(op, file, res) ==
    [op |-> op, file |-> file, res |-> res, age |-> 0, undo |-> wrote]
NoOp == [op |-> "none", file |-> <<>>, res |-> "none", age |-> 0, undo |-> <<>>]

\* The project file is a (or absent), no backup has been made yet.
ModStart(a) ==
    /\ fs = [f \in AllFiles |->
                 IF f = FileA THEN a
                 ELSE IF f = FileOut THEN [data |-> <<111>>, mtime |-> 0]
                 ELSE NoFile]
    /\ bak = <<>>
    /\ active = <<>>
    /\ now = 0
    /\ opPc = "idle"
    /\ opTarget = <<>>
    /\ opContent = <<>>
    /\ opTmp = <<>>
    /\ opPrev = NoFile
    /\ nops = 0
    /\ last = NoOp
    /\ wrote = <<>>
    /\ snap = <<>>
    /\ created = {}
    /\ ncreated = 0
    /\ clTodo = <<>>

InitMod ==
    \E a \in {[data |-> c, mtime |-> 0] : c \in InitContents} \cup {NoFile} :
        ModStart(a)

\* Bookkeeping shared by the operations that run in one step.
Finish(rec) ==
    /\ opPc = "idle"
    /\ nops < MaxOps
    /\ UNCHANGED otherThanMod
    /\ nops' = nops + 1
    /\ last' = rec
    /\ wrote' = <<>>
    /\ opPc' = opPc
    /\ opTarget' = <<>>
    /\ opContent' = <<>>
    /\ opTmp' = <<>>
    /\ opPrev' = NoFile

\* BackupManager.create_backup.
CreateBackup(p) ==
    LET r == Resolve(p) IN
    IF ~Exists(r)
    THEN /\ Finish(OpRec("create_backup", r, "FileNotFoundError"))
         /\ UNCHANGED <<fs, bak, active, now, snap, created, ncreated>>
    ELSE IF ~IsUnder(r, Root)
    THEN /\ Finish(OpRec("create_backup", r, "ValueError"))
         /\ UNCHANGED <<fs, bak, active, now, snap, created, ncreated>>
    ELSE \E u \in 1..NumUids :
         /\ Finish(OpRec("create_backup", r, "ok"))
         /\ bak' = Put(bak, backup_name(r, u), fs[r])
         /\ active' = record_active(r, backup_name(r, u))
         /\ snap' = Put(snap, r, fs[r].data)
         /\ created' = created \cup {backup_name(r, u)}
         /\ ncreated' = ncreated + 1
         /\ UNCHANGED <<fs, now>>

\* The outcome of restore_backup: line 48, then open() and read() of the
\* backup as UTF-8 text (lines 52-53), then the copy (line 57).
RestoreOutcome(r) ==
    IF ~has_backup(r) THEN "BackupNotFoundError"
    ELSE IF active[r] \notin DOMAIN bak THEN "FileNotFoundError"
    ELSE IF ~Utf8Valid(bak[active[r]].data) THEN "UnicodeDecodeError"
    ELSE "True"

\* BackupManager.restore_backup.
RestoreBackup(p) ==
    LET r == Resolve(p) IN
    /\ Finish(OpRec("restore_backup", r, RestoreOutcome(r)))
    /\ fs' = IF RestoreOutcome(r) = "True"
             THEN [fs EXCEPT ![r] = bak[active[r]]] ELSE fs
    /\ UNCHANGED <<bak, active, now, snap, created, ncreated>>

\* CodeModifier.rollback: validate_path, then restore_backup.
Rollback(p) ==
    LET r == Resolve(p) IN
    IF ~validate_path(p)
    THEN /\ Finish(OpRec("rollback", r, "PermissionError"))
         /\ UNCHANGED <<fs, bak, active, now, snap, created, ncreated>>
    ELSE /\ Finish(OpRec("rollback", r, RestoreOutcome(r)))
         /\ fs' = IF RestoreOutcome(r) = "True"
                  THEN [fs EXCEPT ![r] = bak[active[r]]] ELSE fs
         /\ UNCHANGED <<bak, active, now, snap, created, ncreated>>

\* BackupManager.clear_backup.
ClearBackup(p) ==
    LET r == Resolve(p) IN
    /\ Finish(OpRec("clear_backup", r, "ok"))
    /\ active' = Drop(active, {r})
    /\ UNCHANGED <<fs, bak, now, snap, created, ncreated>>

\* BackupManager.cleanup_old_backups.
CleanupOldBackups(max_age) ==
    /\ Finish([OpRec("cleanup_old_backups", <<>>, "ok") EXCEPT !.age = max_age])
    /\ bak' = Drop(bak, cleanup_victims(max_age))
    /\ UNCHANGED <<fs, active, now, snap, created, ncreated>>

\* The orders in which glob("*.bak") can yield the files the directory holds.
Orders(S) ==
    {o \in [1..Cardinality(S) -> S] : \A i, j \in 1..Cardinality(S) : o[i] = o[j] => i = j}

\* cleanup_old_backups lines 67-73: the active paths and the time are taken
\* once, then the directory is listed.  A missing directory lists nothing.
CleanupBegin(max_age) ==
    /\ opPc = "idle"
    /\ nops < MaxOps
    /\ UNCHANGED otherThanCleanup
    /\ nops' = nops + 1
    /\ last' = [OpRec("cleanup_old_backups", <<>>, "running") EXCEPT !.age = max_age]
    /\ wrote' = <<>>
    /\ opPc' = "cl_stat"
    /\ \E o \in Orders(DOMAIN bak) : clTodo' = o
    /\ UNCHANGED <<fs, bak, active, now, opTarget, opContent, opTmp, opPrev,
                   snap, created, ncreated>>

\* Lines 73-78: the next listed file.  An active backup is passed over;
\* backup.stat() is outside the try and raises FileNotFoundError for a file
\* that is gone; a file old enough goes on to unlink.  The call returns when
\* the listing is exhausted.
CleanupStat ==
    /\ opPc = "cl_stat"
    /\ UNCHANGED otherThanCleanup
    /\ IF clTodo = <<>>
       THEN /\ opPc' = "idle"
            /\ last' = [last EXCEPT !.res = "ok"]
            /\ clTodo' = clTodo
       ELSE IF is_active(Head(clTodo))
       THEN /\ clTodo' = Tail(clTodo)
            /\ UNCHANGED <<opPc, last>>
       ELSE IF Head(clTodo) \notin DOMAIN bak
       THEN /\ opPc' = "idle"
            /\ last' = [last EXCEPT !.res = "FileNotFoundError"]
            /\ clTodo' = <<>>
       ELSE IF now - bak[Head(clTodo)].mtime > last.age
       THEN /\ opPc' = "cl_unlink"
            /\ UNCHANGED <<clTodo, last>>
       ELSE /\ clTodo' = Tail(clTodo)
            /\ UNCHANGED <<opPc, last>>
    /\ UNCHANGED <<fs, bak, active, now, opTarget, opContent, opTmp, opPrev, nops,
                   wrote, snap, created, ncreated>>

\* Lines 79-82: unlink the file; the OSError of a file that is gone is
\* swallowed.
CleanupUnlink ==
    /\ opPc = "cl_unlink"
    /\ UNCHANGED otherThanCleanup
    /\ bak' = Drop(bak, {Head(clTodo)})
    /\ clTodo' = Tail(clTodo)
    /\ opPc' = "cl_stat"
    /\ UNCHANGED <<fs, active, now, opTarget, opContent, opTmp, opPrev, nops,
                   last, wrote, snap, created, ncreated>>

\* Another process removes a backup file while the loop is running.
ConcurrentDelete(n) ==
    /\ opPc \in {"cl_stat", "cl_unlink"}
    /\ n \in DOMAIN bak
    /\ UNCHANGED otherThanCleanup
    /\ bak' = Drop(bak, {n})
    /\ UNCHANGED <<fs, active, now, opPc, opTarget, opContent, opTmp, opPrev, nops,
                   last, wrote, snap, created, ncreated, clTodo>>

\* write_file line 102: validate_path raises before anything is touched;
\* otherwise the write proceeds on the resolved target.
WriteStart(p, c) ==
    /\ opPc = "idle"
    /\ nops < MaxOps
    /\ UNCHANGED otherThanMod
    /\ nops' = nops + 1
    /\ wrote' = <<>>
    /\ opTarget' = Resolve(p)
    /\ opContent' = c
    /\ opPrev' = fs[Resolve(p)]
    /\ opTmp' = <<>>
    /\ IF ~validate_path(p)
       THEN /\ last' = OpRec("write_file", Resolve(p), "PermissionError")
            /\ opPc' = opPc
       ELSE /\ last' = OpRec("write_file", Resolve(p), "running")
            /\ opPc' = "backup"
    /\ UNCHANGED <<fs, bak, active, now, snap, created, ncreated>>

\* Lines 105-106: back the target up when it exists.  relative_to raises
\* ValueError for a target outside the root, and the copy can fail (OSError).
WriteBackup ==
    /\ opPc = "backup"
    /\ UNCHANGED otherThanMod
    /\ IF ~Exists(opTarget)
       THEN /\ opPc' = "mkstemp"
            /\ UNCHANGED <<bak, active, snap, created, ncreated, last>>
       ELSE IF ~IsUnder(opTarget, Root)
       THEN /\ opPc' = "idle"
            /\ last' = [last EXCEPT !.res = "ValueError"]
            /\ UNCHANGED <<bak, active, snap, created, ncreated>>
       ELSE \/ \E u \in 1..NumUids :
                 /\ bak' = Put(bak, backup_name(opTarget, u), fs[opTarget])
                 /\ active' = record_active(opTarget, backup_name(opTarget, u))
                 /\ snap' = Put(snap, opTarget, fs[opTarget].data)
                 /\ created' = created \cup {backup_name(opTarget, u)}
                 /\ ncreated' = ncreated + 1
                 /\ opPc' = "mkstemp"
                 /\ last' = last
            \/ /\ opPc' = "idle"
               /\ last' = [last EXCEPT !.res = "OSError"]
               /\ UNCHANGED <<bak, active, snap, created, ncreated>>
    /\ UNCHANGED <<fs, now, opTarget, opContent, opTmp, opPrev, nops, wrote>>

\* Lines 110-114: mkstemp creates the empty temporary file, or fails.
WriteMkstemp ==
    /\ opPc = "mkstemp"
    /\ UNCHANGED otherThanMod
    /\ \/ /\ opTmp' = mkstemp_path(opTarget)
          /\ fs' = [fs EXCEPT ![mkstemp_path(opTarget)] = [data |-> <<>>, mtime |-> now]]
          /\ opPc' = "write"
          /\ last' = last
       \/ /\ opPc' = "idle"
          /\ last' = [last EXCEPT !.res = "OSError"]
          /\ UNCHANGED <<fs, opTmp>>
    /\ UNCHANGED <<bak, active, now, opTarget, opContent, opPrev, nops, wrote,
                   snap, created, ncreated>>

\* Lines 116-119: the content reaches the temporary file piece by piece;
\* flush and fsync complete it.
WriteChunk ==
    /\ opPc = "write"
    /\ UNCHANGED otherThanMod
    /\ LET n == Len(fs[opTmp].data) IN
       /\ fs' = [fs EXCEPT ![opTmp] = [data |-> Append(@.data, opContent[n + 1]),
                                       mtime |-> now]]
       /\ opPc' = IF n + 1 < Len(opContent) THEN opPc ELSE "replace"
    /\ UNCHANGED <<bak, active, now, opTarget, opContent, opTmp, opPrev, nops,
                   last, wrote, snap, created, ncreated>>

\* Line 122: os.replace(temp_path, target_path).
WriteReplace ==
    /\ opPc = "replace"
    /\ UNCHANGED otherThanMod
    /\ fs' = [f \in DOMAIN fs |->
                IF f = opTarget THEN fs[opTmp]
                ELSE IF f = opTmp THEN NoFile ELSE fs[f]]
    /\ opPc' = "idle"
    /\ last' = [last EXCEPT !.res = "ok"]
    /\ wrote' = IF opPrev = NoFile THEN <<>> ELSE <<opTarget, opPrev.data>>
    /\ UNCHANGED <<bak, active, now, opTarget, opContent, opTmp, opPrev, nops,
                   snap, created, ncreated>>

\* Lines 123-126: the write, the fsync or the rename raises; the temporary
\* file is unlinked and the exception re-raised.
WriteFails ==
    /\ opPc \in {"write", "replace"}
    /\ UNCHANGED otherThanMod
    /\ fs' = [fs EXCEPT ![opTmp] = NoFile]
    /\ opPc' = "idle"
    /\ last' = [last EXCEPT !.res = "OSError"]
    /\ UNCHANGED <<bak, active, now, opTarget, opContent, opTmp, opPrev, nops,
                   wrote, snap, created, ncreated>>

\* The program around the modifier rewrites a project file directly
\* (as the tests do with write_text), with any bytes.
ExternalWrite(f, c) ==
    /\ Finish(OpRec("external_write", f, "ok"))
    /\ fs' = [fs EXCEPT ![f] = [data |-> c, mtime |-> now]]
    /\ UNCHANGED <<bak, active, now, snap, created, ncreated>>

\* A backup file is deleted from outside (another process, the operator).
ExternalDelete(n) ==
    /\ n \in DOMAIN bak
    /\ Finish(OpRec("external_delete", <<>>, "ok"))
    /\ bak' = Drop(bak, {n})
    /\ UNCHANGED <<fs, active, now, snap, created, ncreated>>

\* Time passes.
Tick ==
    /\ opPc = "idle"
    /\ now < MaxTime
    /\ UNCHANGED otherThanMod
    /\ now' = now + 1
    /\ UNCHANGED <<fs, bak, active, opPc, opTarget, opContent, opTmp, opPrev, nops,
                   last, wrote, snap, created, ncreated>>

(***************************************************************************)
(* Part 3.  FixStrategyEngine and FormattingStrategy.                      *)
(***************************************************************************)

\* Longest issue list handed to fix_issues.
MaxIssues == 2

\* Source files on disk: two in the project, one outside its root.
SrcA == <<"proj", "a.py">>
SrcNotes == <<"proj", "notes.md">>
SrcEvil == <<"etc", "evil.py">>
SrcFiles == {SrcA, SrcNotes, SrcEvil}

\* issue.file as the parser extracts it: relative or absolute, any segments.
IssueFiles ==
    { [abs |-> FALSE, segs |-> <<"a.py">>],
      [abs |-> FALSE, segs |-> <<"missing.py">>],
      [abs |-> FALSE, segs |-> <<"notes.md">>],
      [abs |-> FALSE, segs |-> <<"..", "etc", "evil.py">>],
      [abs |-> TRUE,  segs |-> <<"etc", "evil.py">>] }

\* fix_type from the parser, and whether problem/full_context holds one of
\* FORMATTING_KEYWORDS.
IssueKinds ==
    { [ft |-> "auto", kw |-> TRUE], [ft |-> "manual", kw |-> TRUE],
      [ft |-> "manual", kw |-> FALSE] }
\* The issues handed in: every kind for a.py, the auto kind for the others.
IssueSet ==
    { [file |-> f, fix_type |-> t.ft, kw |-> t.kw] :
        f \in IssueFiles,
        t \in {k \in IssueKinds : k.ft = "auto"} }
    \cup { [file |-> [abs |-> FALSE, segs |-> <<"a.py">>], fix_type |-> t.ft, kw |-> t.kw] :
             t \in IssueKinds }

\* A source text, as far as black, isort and compile() can tell texts apart.
SrcTexts ==
    { [fmt |-> FALSE, srt |-> FALSE, ok |-> TRUE,  gone |-> FALSE],
      [fmt |-> TRUE,  srt |-> FALSE, ok |-> TRUE,  gone |-> FALSE],
      [fmt |-> TRUE,  srt |-> TRUE,  ok |-> TRUE,  gone |-> FALSE],
      [fmt |-> FALSE, srt |-> TRUE,  ok |-> FALSE, gone |-> FALSE] }
NoSrc == [fmt |-> FALSE, srt |-> FALSE, ok |-> FALSE, gone |-> TRUE]


PyNames == {"a.py", "missing.py", "evil.py"}
\* issue.file.endswith('.py')
EndsWithPy(file) == file.segs[Len(file.segs)] \in PyNames

\* FormattingStrategy.can_fix
can_fix(strategy, issue) ==
    /\ strategy = "formatting"
    /\ EndsWithPy(issue.file)
    /\ (issue.fix_type = "auto" \/ issue.kw)

\* FixStrategyEngine.find_strategy: index of the first strategy that can fix
\* the issue, 0 for None.
find_strategy_none(issue) == 0
find_last_strategy(issue) ==
    IF \E i \in 1..Len(strategies) : can_fix(strategies[i], issue)
    THEN CHOOSE i \in 1..Len(strategies) :
           /\ can_fix(strategies[i], issue)
           /\ \A j \in (i + 1)..Len(strategies) : ~can_fix(strategies[j], issue)
    ELSE 0
find_strategy(issue) ==
    IF \E i \in 1..Len(strategies) : can_fix(strategies[i], issue)
    THEN CHOOSE i \in 1..Len(strategies) :
           /\ can_fix(strategies[i], issue)
           /\ \A j \in 1..(i - 1) : ~can_fix(strategies[j], issue)
    ELSE 0

\* apply_fix lines 65-67: Path(issue.file), joined to the root when relative.
\* The file the operating system then opens is the path with its '..'
\* segments and symlinks followed.
issue_file_path(file) == Resolve(IF file.abs THEN file.segs ELSE Root \o file.segs)

SrcExists(f) == f \in DOMAIN src /\ src[f] # NoSrc

\* What `black <file>` leaves on disk: unparsable input is left alone (exit
\* code 123), anything else comes out formatted.
black(text) == IF text.ok THEN [text EXCEPT !.fmt = TRUE] ELSE text
black_returncode(text) == IF text.ok THEN 0 ELSE 123
\* `black --check`: 0 when nothing would change, 1 when it would, 123 on error.
black_check_returncode(text) == IF ~text.ok THEN 123 ELSE IF text.fmt THEN 0 ELSE 1
\* What `black --check <file>` leaves on disk: the file as it was.
black_check_writes(text) == black(text)
black_check(text) == text
\* What `isort <file>` leaves on disk.
isort(text) == [text EXCEPT !.srt = TRUE]

\* FixStrategy.validate_fix: the content changed and still compiles.
validate_fix(old, new) == old # new /\ new.ok

FixResult(i, status, chg, err) ==
    [issue |-> i, status |-> status, changes |-> chg, error |-> err]

\* fix_issues line 60: the loop is at the first issue without a result.
cur_index_last == Len(issues)
cur_index == Len(results) + 1
CurIssue == issues[cur_index]

\* fix_issues lines 81-87: where control goes after apply_fix raised; the
\* exception is caught and the loop goes on.
except_propagates == "raised"
except_caught == "loop"

\* fix_issues(iss, dry_run=dr) is about to run on an engine with the
\* strategies strat registered; hb, hi: black and isort are installed.
FixStart(a, iss, strat, dr, hb, hi) ==
    /\ src = [f \in SrcFiles |->
                  IF f = SrcA THEN a
                  ELSE [fmt |-> FALSE, srt |-> FALSE, ok |-> TRUE, gone |-> FALSE]]
    /\ src0 = src
    /\ issues = iss
    /\ results = <<>>
    /\ strategies = strat
    /\ dryRun = dr
    /\ hasBlack = hb
    /\ hasIsort = hi
    /\ fpc = "loop"
    /\ target = <<>>
    /\ original = NoSrc
    /\ changes = <<>>
    /\ applyLog = <<>>

\* The registries: nothing, one FormattingStrategy, two of them.
Registries == {<<>>, <<"formatting">>, <<"formatting", "formatting">>}

InitFix ==
    \E a \in SrcTexts, n \in 0..MaxIssues, strat \in Registries,
       dr \in BOOLEAN, hb \in BOOLEAN, hi \in BOOLEAN :
        \E iss \in [1..n -> IssueSet] : FixStart(a, iss, strat, dr, hb, hi)

\* fix_issues lines 60-71: no strategy can handle the issue.
FixSkip ==
    /\ fpc = "loop"
    /\ Len(results) < Len(issues)
    /\ find_strategy(CurIssue) = 0
    /\ UNCHANGED otherThanFix
    /\ results' = Append(results, FixResult(cur_index, "skipped", <<>>, "no strategy"))
    /\ UNCHANGED <<src, src0, issues, strategies, dryRun, hasBlack, hasIsort,
                   fpc, target, original, changes, applyLog>>

\* fix_issues lines 73-79 and apply_fix lines 64-79: resolve the path, fail
\* on a missing file, read the original content.
ApplyStart ==
    /\ fpc = "loop"
    /\ Len(results) < Len(issues)
    /\ find_strategy(CurIssue) # 0
    /\ UNCHANGED otherThanFix
    /\ applyLog' = Append(applyLog, <<cur_index, find_strategy(CurIssue)>>)
    /\ LET f == issue_file_path(CurIssue.file) IN
       IF ~SrcExists(f)
       THEN /\ results' = Append(results,
                    FixResult(cur_index, "failed", <<>>, "File not found"))
            /\ UNCHANGED <<fpc, target, original, changes>>
       ELSE /\ target' = f
            /\ original' = src[f]
            /\ changes' = <<>>
            /\ fpc' = IF dryRun THEN "check" ELSE "black"
            /\ results' = results
    /\ UNCHANGED <<src, src0, issues, strategies, dryRun, hasBlack, hasIsort>>

\* apply_fix lines 82-104: dry run, black --check only.
BlackCheck ==
    /\ fpc = "check"
    /\ UNCHANGED otherThanFix
    /\ results' = Append(results,
          IF ~hasBlack
          THEN FixResult(cur_index, "failed", <<>>, "black not installed")
          ELSE FixResult(cur_index, "dry_run",
                         IF black_check_returncode(src[target]) # 0
                         THEN <<"Would format">> ELSE <<>>, ""))
    /\ src' = [src EXCEPT ![target] = black_check(@)]
    /\ fpc' = "loop"
    /\ UNCHANGED <<src0, issues, strategies, dryRun, hasBlack, hasIsort,
                   target, original, changes, applyLog>>

\* apply_fix lines 107-122: run black on the file.
RunBlack ==
    /\ fpc = "black"
    /\ UNCHANGED otherThanFix
    /\ IF ~hasBlack
       THEN /\ results' = Append(results,
                    FixResult(cur_index, "failed", <<>>, "black not installed"))
            /\ fpc' = "loop"
            /\ UNCHANGED <<src, changes>>
       ELSE /\ src' = [src EXCEPT ![target] = black(@)]
            /\ changes' = IF black_returncode(src[target]) = 0 /\ black(src[target]) # original
                          THEN Append(changes, "Formatted") ELSE changes
            /\ fpc' = "isort"
            /\ results' = results
    /\ UNCHANGED <<src0, issues, strategies, dryRun, hasBlack, hasIsort,
                   target, original, applyLog>>

\* apply_fix lines 125-136: run isort, which may be absent.
RunIsort ==
    /\ fpc = "isort"
    /\ UNCHANGED otherThanFix
    /\ IF hasIsort
       THEN /\ src' = [src EXCEPT ![target] = isort(@)]
            /\ changes' = IF isort(src[target]) # original
                          THEN Append(changes, "Sorted imports") ELSE changes
       ELSE UNCHANGED <<src, changes>>
    /\ fpc' = "validate"
    /\ UNCHANGED <<src0, issues, results, strategies, dryRun, hasBlack, hasIsort,
                   target, original, applyLog>>

\* apply_fix lines 139-154: validate, roll back on failure.
Validate ==
    /\ fpc = "validate"
    /\ UNCHANGED otherThanFix
    /\ IF ~validate_fix(original, src[target])
       THEN /\ src' = [src EXCEPT ![target] = original]
            /\ results' = Append(results,
                    FixResult(cur_index, "failed", <<>>, "Fix validation failed"))
       ELSE /\ src' = src
            /\ results' = Append(results,
                    FixResult(cur_index, "success", changes, ""))
    /\ fpc' = "loop"
    /\ UNCHANGED <<src0, issues, strategies, dryRun, hasBlack, hasIsort,
                   target, original, changes, applyLog>>

\* fix_issues lines 81-87: a step of apply_fix raises (the file cannot be
\* read as text, the formatter cannot be executed, the file cannot be written
\* back); the engine records a failed result with the message.
ApplyRaises ==
    /\ fpc \in {"check", "black", "isort", "validate"}
    /\ UNCHANGED otherThanFix
    /\ results' = Append(results, FixResult(cur_index, "failed", <<>>, "str(e)"))
    /\ fpc' = except_caught
    /\ UNCHANGED <<src, src0, issues, strategies, dryRun, hasBlack, hasIsort,
                   target, original, changes, applyLog>>

\* fix_issues line 89: every issue has a result; return.
FixReturn ==
    /\ fpc = "loop"
    /\ Len(results) = Len(issues)
    /\ UNCHANGED otherThanFix
    /\ fpc' = "done"
    /\ UNCHANGED <<src, src0, issues, results, strategies, dryRun, hasBlack,
                   hasIsort, target, original, changes, applyLog>>

(***************************************************************************)
(* Part 4.  The aggregate views over the store (sprint.py lines 62-131).   *)
(***************************************************************************)

\* Longest key in the store, in characters.
MaxKeyLen == 5

\* Keys are strings: sequences of characters.
DigitChars == <<"0", "1", "2", "3", "4", "5", "6", "7", "8", "9">>
KeyChars == {"1", "a", "-"}
RECURSIVE StringsOfLen(_)
StringsOfLen(n) ==
    IF n = 0 THEN {<<>>}
    ELSE {Append(w, c) : w \in StringsOfLen(n - 1), c \in KeyChars}
AllKeys == UNION {StringsOfLen(n) : n \in 1..MaxKeyLen}

\* A story that is always in the store, beside the key under test.
PlainStoryKey == <<"1", "-", "1", "-", "a">>
ViewStatuses == {"done", "backlog"}
EpicNums == {1, 11}

\* str.split("-"): the segments between hyphens, empty ones included.
RECURSIVE SplitFrom(_, _)
SplitFrom(cur, rest) ==
    IF rest = <<>> THEN <<cur>>
    ELSE IF Head(rest) = "-" THEN <<cur>> \o SplitFrom(<<>>, Tail(rest))
    ELSE SplitFrom(Append(cur, Head(rest)), Tail(rest))
split(key) == SplitFrom(<<>>, key)

\* str.isdigit(): at least one character, and all of them digits.
isdigit(seg) ==
    /\ seg # <<>>
    /\ \A i \in 1..Len(seg) : \E d \in 1..Len(DigitChars) : DigitChars[d] = seg[i]

\* _is_story_key
is_story_key(key) ==
    LET parts == split(key) IN
    Len(parts) >= 3 /\ isdigit(parts[1]) /\ isdigit(parts[2])

\* f"{epic_num}-": the decimal digits of the number, then a hyphen.
RECURSIVE str_int(_)
str_int(n) ==
    IF n < 10 THEN <<DigitChars[n + 1]>>
    ELSE Append(str_int(n \div 10), DigitChars[(n % 10) + 1])
epic_prefix(e) == Append(str_int(e), "-")

\* str.startswith
startswith(key, prefix) ==
    Len(key) >= Len(prefix) /\ SubSeq(key, 1, Len(prefix)) = prefix

\* get_stories_by_status: the keys, in dict order.
RECURSIVE get_stories_by_status(_, _)
get_stories_by_status(dev, status) ==
    IF dev = <<>> THEN <<>>
    ELSE (IF dev[1][2] = status /\ is_story_key(dev[1][1]) THEN <<dev[1][1]>> ELSE <<>>)
         \o get_stories_by_status(Tail(dev), status)

\* counts[status] = counts.get(status, 0) + 1, on a sequence of <<status, n>>.
RECURSIVE Bump(_, _)
Bump(counts, status) ==
    IF counts = <<>> THEN << <<status, 1>> >>
    ELSE IF counts[1][1] = status THEN << <<status, counts[1][2] + 1>> >> \o Tail(counts)
    ELSE <<counts[1]>> \o Bump(Tail(counts), status)

\* get_status_summary: <<status, count>> pairs in order of first appearance.
RECURSIVE SummaryFrom(_, _)
SummaryFrom(counts, dev) ==
    IF dev = <<>> THEN counts
    ELSE SummaryFrom(IF is_story_key(dev[1][1]) THEN Bump(counts, dev[1][2]) ELSE counts,
                     Tail(dev))
get_status_summary(dev) == SummaryFrom(<<>>, dev)

\* get_stories_for_epic: the <<key, status>> entries, in dict order.
RECURSIVE get_stories_for_epic(_, _)
get_stories_for_epic(dev, e) ==
    IF dev = <<>> THEN <<>>
    ELSE (IF startswith(dev[1][1], epic_prefix(e)) /\ is_story_key(dev[1][1])
          THEN <<dev[1]>> ELSE <<>>)
         \o get_stories_for_epic(Tail(dev), e)

\* The store holds dev; no view has been taken yet.
ViewsStart(dev) ==
    /\ viewDev = dev
    /\ viewOp = <<"none", "">>
    /\ viewOut = <<>>

\* The store holds the plain story and the key under test.
InitViews ==
    \E key \in AllKeys \ {PlainStoryKey}, status \in ViewStatuses :
        ViewsStart(<< <<PlainStoryKey, "done">>, <<key, status>> >>)

GetStoriesByStatus(status) ==
    /\ UNCHANGED otherThanViews
    /\ viewOp' = <<"get_stories_by_status", status>>
    /\ viewOut' = get_stories_by_status(viewDev, status)
    /\ UNCHANGED viewDev

GetStatusSummary ==
    /\ UNCHANGED otherThanViews
    /\ viewOp' = <<"get_status_summary", "">>
    /\ viewOut' = get_status_summary(viewDev)
    /\ UNCHANGED viewDev

GetStoriesForEpic(e) ==
    /\ UNCHANGED otherThanViews
    /\ viewOp' = <<"get_stories_for_epic", e>>
    /\ viewOut' = get_stories_for_epic(viewDev, e)
    /\ UNCHANGED viewDev

(***************************************************************************)
(* Part 5.  handle_auto_fix (server.py), SafetyGuard (auto_fix/safety.py)  *)
(* and ValidationOrchestrator (auto_fix/validator.py).                     *)
(***************************************************************************)

\* AutoFixConfig.max_file_size_kb
max_file_size_kb == 500

Whitespace == {" ", "\n"}
RECURSIVE lstrip(_)
lstrip(s) == IF s # <<>> /\ Head(s) \in Whitespace THEN lstrip(Tail(s)) ELSE s
RECURSIVE rstrip(_)
rstrip(s) ==
    IF s # <<>> /\ s[Len(s)] \in Whitespace
    THEN rstrip(SubSeq(s, 1, Len(s) - 1)) ELSE s
\* str.strip()
strip(s) == rstrip(lstrip(s))

\* What subprocess.run(["git", "status", "--porcelain", "-u"], timeout=5)
\* does: the exception it raises or the exit code and stdout it returns.
\* Outside a repository git exits with 128 and writes only to stderr.
GitClean == [exc |-> "none", rc |-> 0, stdout |-> <<>>]
GitDirty == [exc |-> "none", rc |-> 0, stdout |-> <<" ", "M", " ", "a", "\n">>]
GitNotARepo == [exc |-> "none", rc |-> 128, stdout |-> <<>>]
GitMissing == [exc |-> "FileNotFoundError", rc |-> 0, stdout |-> <<>>]
GitTimeout == [exc |-> "TimeoutExpired", rc |-> 0, stdout |-> <<>>]
GitOutcomes == {GitClean, GitDirty, GitNotARepo, GitMissing, GitTimeout}

\* SafetyGuard.check_git_status
check_git_status_open(g) == TRUE
check_git_status(g) ==
    IF g.exc \in {"TimeoutExpired", "FileNotFoundError"} THEN FALSE
    ELSE Len(strip(g.stdout)) = 0

\* SafetyGuard.validate_file_size
validate_file_size(f, max_kb) ==
    IF ~SrcExists(f) THEN TRUE ELSE srcKb[f] <= max_kb

\* What the test runner's subprocess.run(..., timeout=self.timeout) does.
\* pkg: package.json exists, so the runner is npm test, else pytest -q.
RunnerOutcomes ==
    { [pkg |-> p, exc |-> o[1], rc |-> o[2]] :
        p \in BOOLEAN,
        o \in {<<"none", 0>>, <<"none", 1>>,
               <<"FileNotFoundError", 0>>, <<"TimeoutExpired", 0>>} }

\* ValidationOrchestrator._run_pytest
run_pytest(o) ==
    IF o.exc \in {"TimeoutExpired", "FileNotFoundError"} THEN FALSE ELSE o.rc = 0
\* ValidationOrchestrator._run_npm_test
run_npm_test(o) ==
    IF o.exc \in {"TimeoutExpired", "FileNotFoundError"} THEN FALSE ELSE o.rc = 0
\* ValidationOrchestrator.run_tests
run_tests(o) == IF o.pkg THEN run_npm_test(o) ELSE run_pytest(o)

\* str(bool), and None for a validation that did not run.
PyBool(b) == IF b THEN "True" ELSE "False"
validation_passed == IF hTest = <<>> THEN "None" ELSE PyBool(hTest[2])

\* AutoFixReport.fixed_count, failed_count, skipped_count
RECURSIVE CountStatus(_, _)
CountStatus(rs, st) ==
    IF rs = <<>> THEN 0
    ELSE (IF rs[1].status = st THEN 1 ELSE 0) + CountStatus(Tail(rs), st)
fixed_count == CountStatus(results, "success")
failed_count == CountStatus(results, "failed")
skipped_count == CountStatus(results, "skipped")
\* AutoFixReport.total_issues, dry_run_count
total_issues == Len(results)
dry_run_count == CountStatus(results, "dry_run")
\* AutoFixReport.fix_rate, a float in the code: here the fraction
\* <<numerator, denominator>>, 0.0 being <<0, 1>>.
fix_rate_success_only ==
    IF total_issues = 0 THEN <<0, 1>> ELSE <<fixed_count, total_issues>>
fix_rate ==
    IF total_issues = 0 THEN <<0, 1>>
    ELSE <<Len(SelectSeq(results, LAMBDA r : r.status \in {"success", "dry_run"})),
           total_issues>>

\* The issues ReviewIssueParser.parse_file hands back: a formatting issue for
\* a.py, a design issue for a.py, a formatting issue for a file that is gone.
AutoIssues ==
    { [file |-> [abs |-> FALSE, segs |-> <<"a.py">>], fix_type |-> "auto", kw |-> TRUE],
      [file |-> [abs |-> FALSE, segs |-> <<"a.py">>], fix_type |-> "manual", kw |-> FALSE],
      [file |-> [abs |-> FALSE, segs |-> <<"missing.py">>], fix_type |-> "auto", kw |-> TRUE] }

Response(ok, kind, next) ==
    [ok |-> ok, kind |-> kind, next |-> next, validation |-> validation_passed]
NoResp == [ok |-> FALSE, kind |-> "none", next |-> "none", validation |-> "None"]

\* handle_auto_fix(story_key, dry_run) is called: a.py holds a and is kb KB
\* large; inp says whether the key is well-formed and what the configuration
\* asks for.
AutoStart(a, kb, inp) ==
    /\ src = [f \in SrcFiles |->
                  IF f = SrcA THEN a
                  ELSE [fmt |-> FALSE, srt |-> FALSE, ok |-> TRUE, gone |-> FALSE]]
    /\ src0 = src
    /\ issues = <<>>
    /\ results = <<>>
    /\ strategies = <<>>
    /\ dryRun = FALSE
    /\ hasBlack = TRUE
    /\ hasIsort = TRUE
    /\ fpc = "none"
    /\ target = <<>>
    /\ original = NoSrc
    /\ changes = <<>>
    /\ applyLog = <<>>
    /\ hpc = "start"
    /\ hIn = inp
    /\ srcKb = [f \in SrcFiles |-> IF f = SrcA THEN kb ELSE 1]
    /\ hGit = <<>>
    /\ hReview = "unknown"
    /\ hTest = <<>>
    /\ hReport = <<>>
    /\ hResp = NoResp

AutoInputs ==
    [key_ok : BOOLEAN, dry_run : BOOLEAN, require_clean_git : BOOLEAN,
     formatting_enabled : BOOLEAN]

InitAuto ==
    \E a \in SrcTexts, kb \in {1, max_file_size_kb + 1}, inp \in AutoInputs :
        AutoStart(a, kb, inp)

\* No handle_auto_fix call is running.
AutoIdle ==
    /\ hpc = "none"
    /\ hIn = <<>>
    /\ srcKb = <<>>
    /\ hGit = <<>>
    /\ hReview = "unknown"
    /\ hTest = <<>>
    /\ hReport = <<>>
    /\ hResp = NoResp

\* Lines 1105-1128: the story key is checked, the configuration loaded, and
\* unless this is a dry run or the configuration waives it, the working tree
\* must be clean.
AutoFixEnter ==
    /\ hpc = "start"
    /\ UNCHANGED otherThanAuto
    /\ IF ~hIn.key_ok
       THEN /\ hResp' = Response(FALSE, "invalid_story_key", "none")
            /\ hpc' = "returned"
            /\ hGit' = hGit
       ELSE IF ~hIn.dry_run /\ hIn.require_clean_git
       THEN \E g \in GitOutcomes :
              /\ hGit' = <<g, check_git_status(g)>>
              /\ IF ~check_git_status(g)
                 THEN /\ hResp' = Response(FALSE, "not_clean", "check_git_status")
                      /\ hpc' = "returned"
                 ELSE /\ hResp' = hResp
                      /\ hpc' = "find"
       ELSE /\ hGit' = hGit
            /\ hResp' = hResp
            /\ hpc' = "find"
    /\ UNCHANGED <<fixVars, hIn, srcKb, hReview, hTest, hReport>>

\* Lines 1130-1143: the review file must exist.
FindReview ==
    /\ hpc = "find"
    /\ UNCHANGED otherThanAuto
    /\ \E present \in BOOLEAN :
         IF present
         THEN /\ hReview' = "present"
              /\ hpc' = "parse"
              /\ hResp' = hResp
         ELSE /\ hReview' = "missing"
              /\ hpc' = "returned"
              /\ hResp' = Response(FALSE, "review_not_found", "bmad_review_story")
    /\ UNCHANGED <<fixVars, hIn, srcKb, hGit, hTest, hReport>>

\* Lines 1145-1163: the review is parsed; without issues the call returns.
ParseReview ==
    /\ hpc = "parse"
    /\ UNCHANGED otherThanAuto
    /\ \E n \in 0..MaxIssues : \E iss \in [1..n -> AutoIssues] :
         /\ issues' = iss
         /\ IF iss = <<>>
            THEN /\ hResp' = Response(TRUE, "no_issues", "bmad_update_status")
                 /\ hpc' = "returned"
            ELSE /\ hResp' = hResp
                 /\ hpc' = "engine"
    /\ UNCHANGED <<src, src0, results, strategies, dryRun, hasBlack, hasIsort, fpc,
                   target, original, changes, applyLog>>
    /\ UNCHANGED <<hIn, srcKb, hGit, hReview, hTest, hReport>>

\* Lines 1165-1176: the engine is built, FormattingStrategy registered when
\* the configuration enables it, and fix_issues called.
EngineSetup ==
    /\ hpc = "engine"
    /\ UNCHANGED otherThanAuto
    /\ strategies' = IF hIn.formatting_enabled THEN <<"formatting">> ELSE <<>>
    /\ dryRun' = hIn.dry_run
    /\ fpc' = "loop"
    /\ hpc' = "fixing"
    /\ UNCHANGED <<src, src0, issues, results, hasBlack, hasIsort,
                   target, original, changes, applyLog>>
    /\ UNCHANGED <<hIn, srcKb, hGit, hReview, hTest, hReport, hResp>>

\* Lines 1178-1185: fix_issues has returned; the tests are re-run when a
\* real run fixed something.
RunTests ==
    /\ hpc = "fixing"
    /\ fpc = "done"
    /\ UNCHANGED otherThanAuto
    /\ IF ~hIn.dry_run /\ fixed_count > 0
       THEN \E o \in RunnerOutcomes : hTest' = <<o, run_tests(o)>>
       ELSE hTest' = hTest
    /\ hpc' = "save"
    /\ UNCHANGED <<fixVars, hIn, srcKb, hGit, hReview, hReport, hResp>>

\* Lines 1191-1224: the next step the response names.
next_step ==
    IF hIn.dry_run THEN "rerun_without_dry_run"
    ELSE IF validation_passed = "True" THEN "fixes_verified"
    ELSE IF validation_passed = "False" THEN "tests_failed"
    ELSE IF failed_count > 0 \/ skipped_count > 0 THEN "manual_fixes_needed"
    ELSE "no_auto_fixes_needed"

\* Lines 1187-1250: the report is saved and the response returned.
SaveReport ==
    /\ hpc = "save"
    /\ UNCHANGED otherThanAuto
    /\ hReport' = <<results>>
    /\ hResp' = Response(TRUE, "report", next_step)
    /\ hpc' = "returned"
    /\ UNCHANGED <<fixVars, hIn, srcKb, hGit, hReview, hTest>>

(***************************************************************************)
(* Part 6.  The external processes: black and isort (formatting.py), git   *)
(* diff (phases/review.py), git status (safety.py), the test runner        *)
(* (validator.py) and the llm command (llm.py).                            *)
(***************************************************************************)

\* Longest branch name handed to get_git_diff.
MaxBranchLen == 3

\* subprocess.run(...) without a timeout argument: timeout=None.
NoTimeout == 0
\* SafetyGuard.check_git_status: timeout=5
git_status_timeout == 5
\* ValidationOrchestrator.__init__: timeout=60
validator_timeout == 60
\* llm.py DEFAULT_TIMEOUT
DEFAULT_TIMEOUT == 300

\* Characters of a branch name: a letter, the hyphen, the slash, and three
\* the pattern has no place for.
BranchChars == {"a", "-", "/", " ", "\n", ";"}
\* [a-zA-Z0-9._/] and [a-zA-Z0-9._/-]
BranchFirst == {"a", "/"}
BranchRest == {"a", "/", "-"}

BranchNames == UNION {[1..n -> BranchChars] : n \in 0..MaxBranchLen}

\* re.match(r'^[a-zA-Z0-9._/][a-zA-Z0-9._/-]*$', branch): without
\* re.MULTILINE, $ matches at the end and also before a newline that ends
\* the string.
re_match(b) ==
    LET body == IF b # <<>> /\ b[Len(b)] = "\n" THEN SubSeq(b, 1, Len(b) - 1) ELSE b
    IN /\ body # <<>>
       /\ body[1] \in BranchFirst
       /\ \A i \in 2..Len(body) : body[i] \in BranchRest

\* validate_branch_name
validate_branch_name(b) == b # <<>> /\ re_match(b)

\* The operations and the argument each is called with: the base branch,
\* whether package.json exists, whether the engine runs dry.
ProcCalls ==
    {<<"get_git_diff", b>> : b \in BranchNames}
    \cup {<<"run_tests", pkg>> : pkg \in BOOLEAN}
    \cup {<<"fix_issues", dry>> : dry \in BOOLEAN}
    \cup {<<"call_llm", <<>>>>, <<"check_git_status", <<>>>>}

\* The commands an operation starts, one after the other.
Script(op) ==
    IF op[1] = "get_git_diff" THEN <<"git diff --stat", "git diff">>
    ELSE IF op[1] = "run_tests" THEN (IF op[2] THEN <<"npm test">> ELSE <<"pytest">>)
    ELSE IF op[1] = "fix_issues" THEN (IF op[2] THEN <<"black --check">>
                                      ELSE <<"black", "isort">>)
    ELSE IF op[1] = "call_llm" THEN <<"llm">>
    ELSE <<"git status">>

\* The timeout the operation waits for the command with.
timeout_of(cmd) ==
    IF cmd = "git status" THEN git_status_timeout
    ELSE IF cmd \in {"pytest", "npm test"} THEN validator_timeout
    ELSE IF cmd = "llm" THEN DEFAULT_TIMEOUT + 10
    ELSE NoTimeout

NoChild == [cmd |-> "none", timeout |-> NoTimeout, st |-> "none"]

ProcStart ==
    /\ prOp = <<>>
    /\ prPc = "idle"
    /\ prLeft = <<>>
    /\ prRcs = <<>>
    /\ prChild = NoChild
    /\ prSpawned = 0
    /\ prOut = "none"

InitProc == ProcStart

\* The operation is called.  get_git_diff validates the branch name first
\* (lines 187-189).
ProcCall(op) ==
    /\ prPc = "idle"
    /\ UNCHANGED otherThanProc
    /\ prOp' = op
    /\ IF op[1] = "get_git_diff" /\ ~validate_branch_name(op[2])
       THEN /\ prOut' = "ValueError"
            /\ prPc' = "done"
            /\ prLeft' = prLeft
       ELSE /\ prOut' = prOut
            /\ prPc' = "spawn"
            /\ prLeft' = Script(op)
    /\ UNCHANGED <<prRcs, prChild, prSpawned>>

\* subprocess.run / Popen starts the next command; the child will exit by
\* itself or never.
Spawn ==
    /\ prPc = "spawn"
    /\ UNCHANGED otherThanProc
    /\ \E st \in {"running", "hung"} :
         prChild' = [cmd |-> Head(prLeft), timeout |-> timeout_of(Head(prLeft)),
                     st |-> st]
    /\ prLeft' = Tail(prLeft)
    /\ prSpawned' = prSpawned + 1
    /\ prPc' = "waiting"
    /\ UNCHANGED <<prOp, prRcs, prOut>>

\* What the operation returns or raises once its last child has exited.
Outcome(op, rcs) ==
    IF op[1] = "get_git_diff"
    THEN (IF rcs[Len(rcs) - 1] # 0 \/ rcs[Len(rcs)] # 0 THEN "RuntimeError"
          ELSE "returned")
    ELSE IF op[1] = "run_tests" THEN (IF rcs[Len(rcs)] = 0 THEN "True" ELSE "False")
    ELSE IF op[1] = "call_llm" THEN (IF rcs[Len(rcs)] = 0 THEN "returned"
                                    ELSE "RuntimeError")
    ELSE "returned"

\* The child exits; the operation goes on to its next command, to the
\* fall-back commands of get_git_diff (lines 221-234), or ends.
ChildExits ==
    /\ prPc = "waiting"
    /\ prChild.st = "running"
    /\ UNCHANGED otherThanProc
    /\ \E rc \in {0, 1} :
         LET rcs == Append(prRcs, rc) IN
         /\ prRcs' = rcs
         /\ prChild' = [prChild EXCEPT !.st = "exited"]
         /\ IF prLeft # <<>>
            THEN /\ prPc' = "spawn"
                 /\ UNCHANGED <<prLeft, prOut>>
            ELSE IF prOp[1] = "get_git_diff" /\ Len(rcs) = 2 /\ rcs[1] # 0
            THEN /\ prPc' = "spawn"
                 /\ prLeft' = <<"git diff --stat", "git diff">>
                 /\ prOut' = prOut
            ELSE /\ prPc' = "done"
                 /\ prOut' = Outcome(prOp, rcs)
                 /\ prLeft' = prLeft
    /\ UNCHANGED <<prOp, prSpawned>>

\* The timeout of the wait expires: the child is killed and the operation
\* ends with its timed-out outcome.
TimeoutExpires ==
    /\ prPc = "waiting"
    /\ prChild.st \in {"running", "hung"}
    /\ prChild.timeout # NoTimeout
    /\ UNCHANGED otherThanProc
    /\ prChild' = [prChild EXCEPT !.st = "killed"]
    /\ prOut' = IF prOp[1] = "call_llm" THEN "RuntimeError: timed out" ELSE "False"
    /\ prPc' = "done"
    /\ UNCHANGED <<prOp, prLeft, prRcs, prSpawned>>

(***************************************************************************)
(* Part 7.  The issue extractors: ReviewIssueParser.parse                  *)
(* (auto_fix/parser.py) and parse_review_issues (phases/review.py).        *)
(***************************************************************************)

\* Largest number of severity-marked blocks in a review.
MaxBlocks == 2

\* parser.py line 72: problem[:30]
parser_key_chars == 30
\* review.py line 310: content[:50]
review_key_chars == 50

RECURSIVE Rep(_, _)
Rep(c, n) == IF n = 0 THEN <<>> ELSE <<c>> \o Rep(c, n - 1)
\* s[:n]
Prefix(s, n) == SubSeq(s, 1, IF n < Len(s) THEN n ELSE Len(s))

\* The wording of a block: short ones, two that part after 30 characters,
\* two that part after 50.
ShortX == <<"x">>
ShortY == <<"y">>
MidB == Rep("a", parser_key_chars) \o <<"b">>
MidC == Rep("a", parser_key_chars) \o <<"c">>
LongB == Rep("a", review_key_chars) \o <<"b">>
LongC == Rep("a", review_key_chars) \o <<"c">>
\* Wordings with keywords: "Injection", "format", and both in one sentence.
SecOnly == <<"I", "n", "j", "e", "c", "t", "i", "o", "n">>
FmtOnly == <<"f", "o", "r", "m", "a", "t">>
SecAndFmt == SecOnly \o <<" ">> \o FmtOnly

\* A block: its severity marker, its wording on the first line, the file
\* and line its text then refers to ("" and 0: none), and whether it stands
\* inside a fenced code block.
Block(sev, text, file, line, fenced) ==
    [sev |-> sev, text |-> text, file |-> file, line |-> line, fenced |-> fenced]
BlockSet ==
    { Block("HIGH", ShortX, "", 0, FALSE),
      Block("HIGH", ShortY, "", 0, FALSE),
      Block("CRITICAL", ShortX, "", 0, FALSE),
      Block("CRITICAL", ShortX, "", 0, TRUE),
      Block("HIGH", ShortX, "a.py", 0, FALSE),
      Block("HIGH", ShortX, "a.py", 3, FALSE),
      Block("HIGH", MidB, "", 0, FALSE),
      Block("HIGH", MidC, "", 0, FALSE),
      Block("HIGH", LongB, "", 0, FALSE),
      Block("HIGH", LongC, "", 0, FALSE),
      Block("CRITICAL", SecOnly, "", 0, FALSE),
      Block("LOW", FmtOnly, "", 0, FALSE),
      Block("HIGH", SecAndFmt, "", 0, FALSE) }

\* The convention every block of a review is written in:
\*   bold           **HIGH**: text
\*   plain          HIGH: text
\*   bracket        [HIGH] text
\*   numbered_bold  1. **HIGH**: text
Styles == {"bold", "plain", "bracket", "numbered_bold"}
\* Running prose without a marker: the severity word stands inside a
\* sentence, or a sentence begins with it.
\*   prose          The text has a high x
\*   prose_start    High x
ProseStyles == {"prose", "prose_start"}

\* The pattern families, in the order the loops try them.
parser_patterns == <<"bold", "plain", "bracket">>
review_patterns == <<"bold", "plain", "header", "bracket", "list", "numbered">>

\* re.finditer(pattern, ...): the family finds the marker of a block.
Matches(style, fam) ==
    \/ style = fam
    \/ style = "numbered_bold" /\ fam \in {"bold", "numbered"}
    \/ style = "prose_start" /\ fam = "plain"

\* _strip_code_blocks: the text from a ``` to the next ``` is removed.
strip_code_blocks_none(blocks) == blocks
RECURSIVE strip_code_blocks(_)
strip_code_blocks(blocks) ==
    IF blocks = <<>> THEN <<>>
    ELSE (IF blocks[1].fenced THEN <<>> ELSE <<blocks[1]>>)
         \o strip_code_blocks(Tail(blocks))

\* match.group(2).strip(): the text from the marker up to where the family's
\* lookahead stops.  The bold family stops at the next ** marker, so in a
\* numbered list it takes the number of the next item along.
raw_content(style, fam, blocks, i) ==
    blocks[i].text \o
    (IF style = "numbered_bold" /\ fam = "bold" /\ i < Len(blocks)
     THEN <<"\n", DigitChars[i + 2], ".">> ELSE <<>>)

\* The first non-blank line of the content.
RECURSIVE first_line(_)
first_line(c) ==
    IF c = <<>> \/ Head(c) = "\n" THEN <<>> ELSE <<Head(c)>> \o first_line(Tail(c))

\* The deduplication key: parser.py line 72, review.py line 310.
dedup_key(which, b, content) ==
    IF which = "parse"
    THEN <<b.sev, b.file, b.line, Prefix(first_line(content), parser_key_chars)>>
    ELSE <<b.sev, b.file, b.line, Prefix(content, review_key_chars)>>

\* str.lower(), on the capitals the wordings use.
lower_char(c) == IF c = "I" THEN "i" ELSE c
lower(str) == [i \in 1..Len(str) |-> lower_char(str[i])]

\* keyword in combined
Contains(str, kw) ==
    \E i \in 1..(Len(str) - Len(kw) + 1) : SubSeq(str, i, i + Len(kw) - 1) = kw

\* parser.py lines 10-22
AUTO_FIX_KEYWORDS ==
    << <<"f", "o", "r", "m", "a", "t">>,
       <<"f", "o", "r", "m", "a", "t", "t", "i", "n", "g">>,
       <<"b", "l", "a", "c", "k">>,
       <<"i", "s", "o", "r", "t">>,
       <<"i", "m", "p", "o", "r", "t", " ", "o", "r", "d", "e", "r">>,
       <<"u", "n", "u", "s", "e", "d", " ", "i", "m", "p", "o", "r", "t">>,
       <<"m", "i", "s", "s", "i", "n", "g", " ", "i", "m", "p", "o", "r", "t">>,
       <<"w", "h", "i", "t", "e", "s", "p", "a", "c", "e">>,
       <<"i", "n", "d", "e", "n", "t", "a", "t", "i", "o", "n">>,
       <<"t", "r", "a", "i", "l", "i", "n", "g">>,
       <<"l", "i", "n", "t">> >>

\* ReviewIssueParser._categorize_fix_type: the auto-fix keywords are looked
\* for first; every other text is manual.
categorize_fix_type(problem, full_context) ==
    LET combined == lower(problem \o <<" ">> \o full_context)
    IN IF \E k \in 1..Len(AUTO_FIX_KEYWORDS) : Contains(combined, AUTO_FIX_KEYWORDS[k])
       THEN "auto" ELSE "manual"

\* The issue appended for a match: an Issue in parser.py, a dict in review.py.
IssueOf(which, b, content) ==
    IF which = "parse"
    THEN [severity |-> b.sev, problem |-> first_line(content), file |-> b.file,
          line |-> b.line,
          fix_type |-> categorize_fix_type(first_line(content), content)]
    ELSE [severity |-> b.sev, problem |-> first_line(content), file |-> b.file,
          line |-> b.line]

\* The matches in the order the two nested loops visit them.
RECURSIVE AllMatches(_, _, _)
AllMatches(fams, style, n) ==
    IF fams = <<>> THEN <<>>
    ELSE (IF Matches(style, Head(fams)) THEN [i \in 1..n |-> <<Head(fams), i>>]
          ELSE <<>>)
         \o AllMatches(Tail(fams), style, n)

\* The loop body over the matches: skip a key already seen, else append.
RECURSIVE Extract(_, _, _, _, _, _)
Extract(which, style, blocks, ms, seen, out) ==
    IF ms = <<>> THEN out
    ELSE LET b == blocks[ms[1][2]]
             content == raw_content(style, ms[1][1], blocks, ms[1][2])
             key == dedup_key(which, b, content)
         IN IF key \in seen
            THEN Extract(which, style, blocks, Tail(ms), seen, out)
            ELSE Extract(which, style, blocks, Tail(ms), seen \cup {key},
                         Append(out, IssueOf(which, b, content)))

\* ReviewIssueParser.parse
parse(review) ==
    LET blocks == strip_code_blocks(review.blocks)
    IN Extract("parse", review.style, blocks,
               AllMatches(parser_patterns, review.style, Len(blocks)), {}, <<>>)

\* parse_review_issues
parse_review_issues(review) ==
    LET blocks == strip_code_blocks(review.blocks)
    IN Extract("parse_review_issues", review.style, blocks,
               AllMatches(review_patterns, review.style, Len(blocks)), {}, <<>>)

NoReview == [style |-> "bold", blocks |-> <<>>]

\* The extractors are about to run on the review.
ParseStart(review) ==
    /\ psReview = review
    /\ psOp = "none"
    /\ psOut = <<>>

Reviews ==
    UNION { [style : {st}, blocks : [1..n -> BlockSet]] :
              st \in Styles \cup ProseStyles, n \in 0..MaxBlocks }

InitParse == \E review \in Reviews : ParseStart(review)

Parse ==
    /\ UNCHANGED otherThanParse
    /\ psOp' = "parse"
    /\ psOut' = parse(psReview)
    /\ UNCHANGED psReview

ParseReviewIssues ==
    /\ UNCHANGED otherThanParse
    /\ psOp' = "parse_review_issues"
    /\ psOut' = parse_review_issues(psReview)
    /\ UNCHANGED psReview

(***************************************************************************)
(* Part 8.  review_story (phases/review.py) and handle_review_story        *)
(* (server.py).                                                            *)
(***************************************************************************)

\* The "review" entry of the dict: the LLM's text, or the failure message.
ReviewText(kind, body) == [kind |-> kind, body |-> body]
\* any(i['severity'] == 'CRITICAL' for i in structured_issues)
has_critical_never(found) == FALSE
has_critical(found) == \E i \in 1..Len(found) : found[i].severity = "CRITICAL"

\* The dict returned when get_git_diff raised.
FailedResult ==
    [review |-> ReviewText("failed", NoReview),
     has_critical_issues |-> TRUE,
     recommendation |-> "in-progress",
     structured_issues |->
         << [severity |-> "CRITICAL", problem |-> <<"f">>, file |-> "", line |-> 0] >>]

\* The dict returned when call_llm returned the review.
ReviewResult(review) ==
    LET structured_issues == parse_review_issues(review)
    IN [review |-> ReviewText("llm", review),
        has_critical_issues |-> has_critical(structured_issues),
        recommendation |->
            IF has_critical(structured_issues) THEN "in-progress" ELSE "done",
        structured_issues |-> structured_issues]

ReviewResponse(ok, kind, new_status) ==
    [ok |-> ok, kind |-> kind, new_status |-> new_status]

\* handle_review_story(story_key) is called.
ReviewStart(inp) ==
    /\ rvPc = "idle"
    /\ rvIn = inp
    /\ rvDiff = "none"
    /\ rvLlm = "none"
    /\ rvResult = <<>>
    /\ rvSaved = <<>>
    /\ rvStatus = inp.status0
    /\ rvResp = <<>>

ReviewInputs == [key_ok : BOOLEAN, status0 : {"in-progress", "review", "done"}]

InitReview == \E inp \in ReviewInputs : ReviewStart(inp)

\* server.py 872-878: the key check.
ReviewEnter ==
    /\ rvPc = "idle"
    /\ UNCHANGED otherThanReview
    /\ IF ~rvIn.key_ok
       THEN /\ rvPc' = "rejected"
            /\ rvResp' = <<ReviewResponse(FALSE, "invalid_key", "")>>
       ELSE /\ rvPc' = "diff"
            /\ UNCHANGED rvResp
    /\ UNCHANGED <<rvIn, rvDiff, rvLlm, rvResult, rvSaved, rvStatus>>

\* review.py 348-366: get_git_diff returns the diff or raises.
GetDiff ==
    /\ rvPc = "diff"
    /\ UNCHANGED otherThanReview
    /\ \E d \in {"ok", "fail"} :
          /\ rvDiff' = d
          /\ IF d = "fail"
             THEN /\ rvResult' = <<FailedResult>>
                  /\ rvPc' = "save"
             ELSE /\ UNCHANGED rvResult
                  /\ rvPc' = "llm"
    /\ UNCHANGED <<rvIn, rvLlm, rvSaved, rvStatus, rvResp>>

\* review.py 374-393: call_llm raises, and the exception leaves review_story
\* and the handler; or it returns the review, which is parsed.
CallLlm ==
    /\ rvPc = "llm"
    /\ UNCHANGED otherThanReview
    /\ \/ /\ rvLlm' = "raised"
          /\ rvPc' = "raised"
          /\ UNCHANGED rvResult
       \/ \E review \in Reviews :
             /\ rvLlm' = "returned"
             /\ rvResult' = <<ReviewResult(review)>>
             /\ rvPc' = "save"
    /\ UNCHANGED <<rvIn, rvDiff, rvSaved, rvStatus, rvResp>>

\* server.py 888: save_review
SaveReview ==
    /\ rvPc = "save"
    /\ UNCHANGED otherThanReview
    /\ rvSaved' = <<rvResult[1].review>>
    /\ rvPc' = "update"
    /\ UNCHANGED <<rvIn, rvDiff, rvLlm, rvResult, rvStatus, rvResp>>

\* server.py 891-935: update_story_status with the recommendation, then the
\* response.
UpdateAndRespond ==
    /\ rvPc = "update"
    /\ status_accepted(rvResult[1].recommendation)
    /\ UNCHANGED otherThanReview
    /\ rvStatus' = rvResult[1].recommendation
    /\ rvResp' = <<ReviewResponse(TRUE,
                      IF rvResult[1].has_critical_issues THEN "fix_critical"
                      ELSE "complete",
                      rvResult[1].recommendation)>>
    /\ rvPc' = "returned"
    /\ UNCHANGED <<rvIn, rvDiff, rvLlm, rvResult, rvSaved>>

(***************************************************************************)
(* Part 9.  handle_execute_implementation (server.py) and                  *)
(* get_execution_instructions (phases/execute.py).                         *)
(***************************************************************************)

\* A validation report has at most this many lines.
MaxReportLines == 2

\* A line of a validation report: what precedes the label, the label, and
\* the word after it.
ReportLines ==
    {[lead |-> "", label |-> "Status:", word |-> "PASS"],
     [lead |-> "", label |-> "status:", word |-> "pass"],
     [lead |-> "", label |-> "Status:", word |-> "FAIL"],
     [lead |-> " ", label |-> "Status:", word |-> "PASS"],
     [lead |-> "", label |-> "Status:", word |-> "PASSED"],
     [lead |-> "", label |-> "Result:", word |-> "PASS"]}

Reports == UNION {[1..n -> ReportLines] : n \in 1..MaxReportLines}

\* validator.py line 78: ^Status:\s*(PASS|FAIL)\b, case-insensitive, on any
\* line; the word the first matching line carries, upper-cased, or "" when
\* no line matches.
upper_word(w) == IF w = "pass" THEN "PASS" ELSE IF w = "fail" THEN "FAIL" ELSE w
status_line(l) ==
    /\ l.lead = ""
    /\ l.label \in {"Status:", "status:"}
    /\ upper_word(l.word) \in {"PASS", "FAIL"}
RECURSIVE first_status(_)
first_status(report) ==
    IF report = <<>> THEN ""
    ELSE IF status_line(Head(report)) THEN upper_word(Head(report).word)
    ELSE first_status(Tail(report))

\* validator.py lines 76-81.
plan_validation_passed(report) == first_status(report) = "PASS"

\* execute.py lines 9-27: the exception get_execution_instructions raises,
\* or "ok".  inp.report is <<>> for a missing report file, else <<its lines>>.
get_execution_instructions(inp) ==
    IF ~inp.story THEN "FileNotFoundError: Story file not found"
    ELSE IF ~inp.plan THEN "FileNotFoundError: Design plan not found"
    ELSE IF inp.report = <<>> THEN "FileNotFoundError: Validation report not found"
    ELSE IF ~plan_validation_passed(inp.report[1]) THEN "ValueError: Design plan validation failed"
    ELSE "ok"

ExecInputs ==
    [key_ok : BOOLEAN, story : BOOLEAN, plan : BOOLEAN,
     report : {<<>>} \cup {<<r>> : r \in Reports},
     status0 : {"ready-for-dev", "in-progress"}]

ExecStart(inp) ==
    /\ exPc = "idle"
    /\ exIn = inp
    /\ exStatus = inp.status0
    /\ exResp = <<>>

InitExec == \E inp \in ExecInputs : ExecStart(inp)

\* server.py 633-637: the key check.
ExecEnter ==
    /\ exPc = "idle"
    /\ UNCHANGED otherThanExec
    /\ IF exIn.key_ok
       THEN /\ exPc' = "instructions"
            /\ exResp' = exResp
       ELSE /\ exPc' = "returned"
            /\ exResp' = <<[ok |-> FALSE, error |-> "Invalid story key format"]>>
    /\ UNCHANGED <<exIn, exStatus>>

\* server.py 641-642 and 670-671: get_execution_instructions; what it
\* raises becomes a failure response.
GetExecutionInstructions ==
    /\ exPc = "instructions"
    /\ UNCHANGED otherThanExec
    /\ IF get_execution_instructions(exIn) = "ok"
       THEN /\ exPc' = "update"
            /\ exResp' = exResp
       ELSE /\ exPc' = "returned"
            /\ exResp' = <<[ok |-> FALSE, error |-> get_execution_instructions(exIn)]>>
    /\ UNCHANGED <<exIn, exStatus>>

\* server.py 643-671: update_story_status(..., "executing") raises ValueError
\* for a status outside VALID_STATUSES (sprint.py 99-100), which the handler
\* turns into a failure response; otherwise the status is stored and the
\* success response is returned.
ExecUpdateAndRespond ==
    /\ exPc = "update"
    /\ UNCHANGED otherThanExec
    /\ IF status_accepted("executing")
       THEN /\ exStatus' = "executing"
            /\ exResp' = <<[ok |-> TRUE, error |-> ""]>>
       ELSE /\ exStatus' = exStatus
            /\ exResp' = <<[ok |-> FALSE, error |-> "ValueError: Invalid status: executing"]>>
    /\ exPc' = "returned"
    /\ UNCHANGED exIn

(***************************************************************************)
(* Specifications.                                                         *)
(***************************************************************************)

\* While one subsystem runs, the others rest in one fixed initial state.
RestSprint == SprintStart(EmptyData)
RestMod == ModStart([data |-> <<195, 169>>, mtime |-> 0])
RestFix ==
    FixStart([fmt |-> TRUE, srt |-> TRUE, ok |-> TRUE, gone |-> FALSE],
             <<>>, <<>>, FALSE, FALSE, FALSE)

RestViews == ViewsStart(<<>>)
RestAuto == AutoIdle
RestProc == ProcStart
RestParse == ParseStart(NoReview)
RestReview == ReviewStart([key_ok |-> FALSE, status0 |-> "review"])
RestExec ==
    ExecStart([key_ok |-> FALSE, story |-> FALSE, plan |-> FALSE, report |-> <<>>,
               status0 |-> "ready-for-dev"])

NextSprint ==
    \/ \E p \in Procs, c \in CallArgs : Call(p, c[1], c[2])
    \/ \E p \in Procs : Acquire(p)
    \/ \E p \in Procs : LoadMutate(p)
    \/ \E p \in Procs : LoadFails(p)
    \/ \E p \in Procs : DumpLine(p)
    \/ \E p \in Procs : Replace(p)
    \/ \E p \in Procs : SaveFails(p)
    \/ \E p \in Procs : Unlock(p)
    \/ \E p \in Procs : Verify(p)
    \/ ReaderOpen
    \/ ReaderRead

NextMod ==
    \/ CreateBackup(FileA)
    \/ RestoreBackup(FileA)
    \/ \E p \in {FileA, LinkOut} : Rollback(p)
    \/ ClearBackup(FileA)
    \/ \E a \in {0, 1} : CleanupOldBackups(a)
    \/ \E p \in InputPaths, c \in TextContents : WriteStart(p, c)
    \/ WriteBackup
    \/ WriteMkstemp
    \/ WriteChunk
    \/ WriteReplace
    \/ WriteFails
    \/ \E c \in ExternalContents : ExternalWrite(FileA, c)
    \/ \E n \in DOMAIN bak : ExternalDelete(n)
    \/ Tick

NextCleanup ==
    \/ CreateBackup(FileA)
    \/ ClearBackup(FileA)
    \/ \E c \in ExternalContents : ExternalWrite(FileA, c)
    \/ Tick
    \/ \E a \in {0, 1} : CleanupBegin(a)
    \/ CleanupStat
    \/ CleanupUnlink
    \/ \E n \in DOMAIN bak : ConcurrentDelete(n)

NextFix ==
    \/ FixSkip
    \/ ApplyStart
    \/ BlackCheck
    \/ RunBlack
    \/ RunIsort
    \/ Validate
    \/ ApplyRaises
    \/ FixReturn

NextAuto ==
    \/ AutoFixEnter
    \/ FindReview
    \/ ParseReview
    \/ EngineSetup
    \/ FixSkip
    \/ ApplyStart
    \/ BlackCheck
    \/ RunBlack
    \/ RunIsort
    \/ Validate
    \/ ApplyRaises
    \/ FixReturn
    \/ RunTests
    \/ SaveReport

NextProc ==
    \/ \E op \in ProcCalls : ProcCall(op)
    \/ Spawn
    \/ ChildExits
    \/ TimeoutExpires

NextWriters ==
    \/ \E p \in Procs, s \in {"in-progress", "done"} : Call(p, "1-1-auth", s)
    \/ \E p \in Procs : Acquire(p)
    \/ \E p \in Procs : LoadMutate(p)
    \/ \E p \in Procs : LoadFails(p)
    \/ \E p \in Procs : DumpLine(p)
    \/ \E p \in Procs : Replace(p)
    \/ \E p \in Procs : SaveFails(p)
    \/ \E p \in Procs : Unlock(p)
    \/ \E p \in Procs : Verify(p)

NextParse ==
    \/ Parse
    \/ ParseReviewIssues

NextReview ==
    \/ ReviewEnter
    \/ GetDiff
    \/ CallLlm
    \/ SaveReview
    \/ UpdateAndRespond

NextExec ==
    \/ ExecEnter
    \/ GetExecutionInstructions
    \/ ExecUpdateAndRespond

NextViews ==
    \/ \E status \in ViewStatuses : GetStoriesByStatus(status)
    \/ GetStatusSummary
    \/ \E e \in EpicNums : GetStoriesForEpic(e)

InitSprintSpec == InitSprint /\ RestMod /\ RestFix /\ RestViews /\ RestAuto /\ RestProc /\ RestParse
    /\ RestReview /\ RestExec
InitModSpec == RestSprint /\ InitMod /\ RestFix /\ RestViews /\ RestAuto /\ RestProc /\ RestParse
    /\ RestReview /\ RestExec
InitFixSpec == RestSprint /\ RestMod /\ InitFix /\ RestViews /\ RestAuto /\ RestProc /\ RestParse
    /\ RestReview /\ RestExec
InitViewsSpec == RestSprint /\ RestMod /\ RestFix /\ InitViews /\ RestAuto /\ RestProc /\ RestParse
    /\ RestReview /\ RestExec
InitAutoSpec == RestSprint /\ RestMod /\ InitAuto /\ RestViews /\ RestProc /\ RestParse
    /\ RestReview /\ RestExec
InitProcSpec == RestSprint /\ RestMod /\ RestFix /\ RestViews /\ RestAuto /\ InitProc /\ RestParse
    /\ RestReview /\ RestExec
InitParseSpec == RestSprint /\ RestMod /\ RestFix /\ RestViews /\ RestAuto /\ RestProc /\ InitParse
    /\ RestReview /\ RestExec
InitReviewSpec == RestSprint /\ RestMod /\ RestFix /\ RestViews /\ RestAuto /\ RestProc /\ RestParse
    /\ InitReview /\ RestExec

InitExecSpec == RestSprint /\ RestMod /\ RestFix /\ RestViews /\ RestAuto /\ RestProc /\ RestParse
    /\ RestReview /\ InitExec

\* Processes racing on the sprint-status store.
SpecSprint == InitSprintSpec /\ [][NextSprint]_vars
\* One process using BackupManager and CodeModifier.
SpecMod == InitModSpec /\ [][NextMod]_vars
\* cleanup_old_backups running file by file next to another process that
\* deletes backups.
SpecCleanup == InitModSpec /\ [][NextCleanup]_vars
\* One fix_issues run of the engine.
SpecFix == InitFixSpec /\ [][NextFix]_vars
\* Views taken of one store.
SpecViews == InitViewsSpec /\ [][NextViews]_vars
\* One handle_auto_fix call, with the fix_issues run inside it.
SpecAuto == InitAutoSpec /\ [][NextAuto]_vars
\* One operation and the external processes it starts.
SpecProc == InitProcSpec /\ [][NextProc]_vars
\* The writers of the store alone, all updating one story, under fair
\* scheduling: a process that can take a step of its call eventually takes
\* one, and flock eventually returns to a waiting process once the lock
\* stays free.
SpecSprintFair ==
    /\ InitSprintSpec
    /\ [][NextWriters]_vars
    /\ \A p \in Procs :
         /\ WF_vars(Acquire(p))
         /\ WF_vars(LoadMutate(p) \/ LoadFails(p))
         /\ WF_vars(DumpLine(p) \/ SaveFails(p))
         /\ WF_vars(Replace(p) \/ SaveFails(p))
         /\ WF_vars(Unlock(p))
         /\ WF_vars(Verify(p))
\* The two extractors applied to one review.
SpecParse == InitParseSpec /\ [][NextParse]_vars
\* One call of handle_review_story.
SpecReview == InitReviewSpec /\ [][NextReview]_vars
\* One call of handle_execute_implementation.
SpecExec == InitExecSpec /\ [][NextExec]_vars

(***************************************************************************)
(* Properties of the sprint-status store.                                  *)
(***************************************************************************)

\* The store after the calls of cs have been applied one at a time, in order.
RECURSIVE ApplyAll(_, _)
ApplyAll(cs, d) ==
    IF cs = <<>> THEN d
    ELSE ApplyAll(Tail(cs), set_status(d, cs[1][1], cs[1][2]))

\* C1: concurrent update_story_status calls leave the store as if they had
\* run one at a time in some order (here: the order of their renames): no
\* update is lost, and a key written twice holds one of the written values.
C1_Serializable ==
    load_sprint_status(storeIno) = ApplyAll(applied, store0)

\* Two calls on the same key with different statuses have both been persisted
\* and every process has returned.
C1_Witness ==
    /\ \A p \in Procs : pc[p] = "done"
    /\ Len(applied) = 2
    /\ applied[1][1] = applied[2][1]
    /\ applied[1][2] # applied[2][2]

\* C2: whatever a lock-free reader obtains is the complete store as it was
\* before or after some write: the initial store with a prefix of the
\* persisted calls applied, never a truncated or half-written document.
C2_ReaderSeesWholeStore ==
    rdResult # <<>> =>
        \E n \in 0..Len(applied) :
            rdResult[1] = ApplyAll(SubSeq(applied, 1, n), store0)

\* The reader opened the store, a writer then replaced it, and the reader is
\* about to parse while another writer is in the middle of its save.
C2_Witness ==
    /\ rdPc = "read"
    /\ rdIno # storeIno
    /\ \E p \in Procs : pc[p] = "dump" /\ inoData[tmpIno[p]] # <<>>

\* C38: the lock has one holder at a time, a process is between its load and
\* its release only while it holds the lock, a call that has ended, normally
\* or with an exception from the load or the save, no longer holds it; and
\* under fair scheduling every process waiting for the lock gets it.
C38_LockScopedAndFair ==
    /\ [](\A p \in Procs :
            /\ pc[p] \in {"load", "dump", "replace", "unlock"} <=> lockHolder = p
            /\ tmpIno[p] # 0 => lockHolder = p)
    /\ \A p \in Procs : (pc[p] = "lock") ~> (lockHolder = p)

\* A call whose save raised has ended and released the lock while another
\* process was waiting for it.
C38_Witness ==
    \E p, q \in Procs :
        /\ pc[p] = "done" /\ ret[p] = "OSError"
        /\ pc[q] = "lock"
        /\ lockHolder = 0

\* C39 as stated: a call that returned False did not store its status: its
\* write is not among the persisted ones.
C39_FalseMeansNotStored ==
    \A p \in Procs :
        (pc[p] = "done" /\ ret[p] = "False")
            => ~\E i \in 1..Len(applied) : applied[i] = arg[p]

\* C11: a call with a status outside the enumerated set raises ValueError at
\* once: it never asks for the lock, creates no temporary file, and leaves the
\* store file and its content as they were.
C11_InvalidStatusRejected ==
    [][\A p \in Procs :
         (pc[p] = "idle" /\ pc'[p] # "idle" /\ arg'[p][2] \notin VALID_STATUSES)
            => /\ ret'[p] = "ValueError"
               /\ pc'[p] = "done"
               /\ UNCHANGED <<storeIno, inoData, lockHolder, tmpIno, applied>>]_vars

\* A call with the status "bogus" was rejected while another process held
\* the lock, and the store is as that process found it.
C11_Witness ==
    \E p \in Procs :
        /\ ret[p] = "ValueError"
        /\ arg[p][2] = "bogus"
        /\ lockHolder \notin {0, p}
        /\ applied = <<>>

\* C12 as stated: every status of the set backlog, ready-for-dev, planning,
\* executing, in-progress, review, done, blocked is accepted: no call with
\* one of them ends in ValueError.
C12_ExtendedStatusesAccepted ==
    \A p \in Procs :
        (pc[p] = "done"
         /\ arg[p][2] \in {"backlog", "ready-for-dev", "planning", "executing",
                           "in-progress", "review", "done", "blocked"})
            => ret[p] # "ValueError"

\* C13: the call returns True only if the value re-read from the store equals
\* the requested status; and when no call overlapped another, the call that
\* reaches its verification returns True with the key mapped to its status.
C13_VerifiedUpdate ==
    [][\A p \in Procs :
         (pc[p] = "verify" /\ pc'[p] = "done")
            => /\ (ret'[p] = "True") <=>
                    (dev_value(load_sprint_status(storeIno), arg[p][1]) = arg[p][2])
               /\ ~overlap => /\ ret'[p] = "True"
                              /\ dev_value(load_sprint_status(storeIno), arg[p][1])
                                    = arg[p][2]]_vars

\* Without overlap, one call has updated a key the store already had and
\* another has added a key seen for the first time; both returned True.
C13_Witness ==
    /\ ~overlap
    /\ store0 # EmptyData
    /\ \E p, q \in Procs :
         /\ ret[p] = "True" /\ arg[p][1] = "1-1-auth"
         /\ ret[q] = "True" /\ arg[q][1] = "1-2-login"

\* C14: every replacement of the store file is the work of one call, keeps
\* every key that was there, changes the status of that call's key only, adds
\* no other key, and keeps the other top-level section.
C14_OnlyOwnKeyChanges ==
    [][LET before == load_sprint_status(storeIno)
           after  == IF storeIno' = 0 THEN EmptyData ELSE yaml_load(inoData'[storeIno'])
       IN storeIno' # storeIno =>
            \E p \in Procs :
                /\ pc[p] = "replace" /\ pc'[p] = "unlock"
                /\ after.proj = before.proj
                /\ dev_value(after, arg[p][1]) = arg[p][2]
                /\ \A i \in 1..Len(before.dev) :
                     before.dev[i][1] # arg[p][1]
                        => dev_value(after, before.dev[i][1]) = before.dev[i][2]
                /\ \A i \in 1..Len(after.dev) :
                     \/ after.dev[i][1] = arg[p][1]
                     \/ dev_get(before, after.dev[i][1]) # 0]_vars

\* A call on a new key has replaced a store that already held another key
\* and the project section; both keys and the section are there.
C14_Witness ==
    /\ store0 # EmptyData
    /\ Len(applied) >= 1
    /\ applied[1][1] = "1-2-login"
    /\ load_sprint_status(storeIno).proj
    /\ Len(load_sprint_status(storeIno).dev) = 2
    /\ dev_value(load_sprint_status(storeIno), "1-1-auth") = "backlog"

(***************************************************************************)
(* Properties of BackupManager and CodeModifier.                           *)
(***************************************************************************)

\* C3: during write_file the target holds its complete previous content or
\* the complete new content; when write_file raises, the target holds what it
\* held before and no temporary file is left beside it; when it returns, the
\* target holds the new content.
C3_AtomicWrite ==
    /\ (last.op = "write_file" /\ opPc # "idle") =>
          (fs[opTarget] = opPrev \/ fs[opTarget].data = opContent)
    /\ (last.op = "write_file" /\ opPc = "idle" /\ last.res # "ok") =>
          (fs[last.file] = opPrev /\ ~Exists(TempPath(last.file)))
    /\ (last.op = "write_file" /\ opPc = "idle" /\ last.res = "ok") =>
          (fs[last.file].data = opContent /\ ~Exists(TempPath(last.file)))

\* A write_file over an existing file failed after part of the new content
\* had reached the temporary file.
C3_Witness ==
    /\ last.op = "write_file"
    /\ last.res = "OSError"
    /\ opPc = "idle"
    /\ Len(opContent) = 2
    /\ opTmp # <<>>
    /\ Exists(last.file)

\* C4: write_file with a path that resolves outside the project root raises
\* PermissionError and changes nothing: no file, no backup, no table entry.
C4_OutsideWriteRefused ==
    [][(nops' = nops + 1 /\ last'.op = "write_file" /\ ~IsUnder(last'.file, Root))
        => /\ last'.res = "PermissionError"
           /\ opPc' = "idle"
           /\ fs' = fs
           /\ bak' = bak
           /\ active' = active]_vars

\* write_file through the symlink or the '..' path was refused.
C4_Witness ==
    /\ last.op = "write_file"
    /\ last.file = FileOut
    /\ last.res = "PermissionError"

\* C6 as stated: a restore_backup that finds its backup leaves the file with
\* exactly the bytes it had at create_backup, whatever they are.
C6_RestoreRoundTrip ==
    (last.op = "restore_backup" /\ has_backup(last.file)) =>
        (last.res = "True" /\ fs[last.file].data = snap[last.file])

\* C7 as stated: rollback of a path right after a write_file that replaced
\* the existing file at that path restores what the file held before that
\* write.
C7_RollbackRestoresPrevious ==
    (last.op = "rollback" /\ last.undo # <<>> /\ last.undo[1] = last.file) =>
        (last.res = "True" /\ fs[last.file].data = last.undo[2])

\* C8: restore_backup without an entry, or with an entry whose backup file is
\* gone, raises BackupNotFoundError and leaves every file alone; clear_backup
\* removes the entry of its path only and deletes no backup file.
C8_RestoreWithoutBackup ==
    [][/\ (nops' = nops + 1 /\ last'.op = "restore_backup"
             /\ ~(last'.file \in DOMAIN active /\ active[last'.file] \in DOMAIN bak))
          => (last'.res = "BackupNotFoundError" /\ fs' = fs /\ bak' = bak)
       /\ (nops' = nops + 1 /\ last'.op = "clear_backup")
          => /\ bak' = bak
             /\ fs' = fs
             /\ DOMAIN active' = DOMAIN active \ {last'.file}
             /\ \A r \in DOMAIN active' : active'[r] = active[r]]_vars

\* restore_backup was refused for a path whose entry names a deleted backup.
C8_Witness ==
    /\ last.op = "restore_backup"
    /\ last.res = "BackupNotFoundError"
    /\ last.file \in DOMAIN active
    /\ active[last.file] \notin DOMAIN bak

\* C9: cleanup_old_backups keeps every backup the active table references,
\* so a path that could be restored before can be restored after, and deletes
\* exactly the unreferenced backups older than max_age_seconds.  A backup's
\* age is that of its st_mtime, which copy2 takes over from the backed-up file.
C9_CleanupKeepsActive ==
    [][(nops' = nops + 1 /\ last'.op = "cleanup_old_backups")
        => /\ active' = active
           /\ \A r \in DOMAIN active :
                active[r] \in DOMAIN bak =>
                    (active[r] \in DOMAIN bak' /\ bak'[active[r]] = bak[active[r]])
           /\ DOMAIN bak \ DOMAIN bak' =
                {n \in DOMAIN bak :
                    /\ \A r \in DOMAIN active : active[r] # n
                    /\ now - bak[n].mtime > last'.age}
           /\ DOMAIN bak' \subseteq DOMAIN bak]_vars

\* A cleanup has deleted a superseded backup and kept the active one, which
\* is just as old.
C9_Witness ==
    /\ last.op = "cleanup_old_backups"
    /\ \E n \in created : n \notin DOMAIN bak
    /\ \E r \in DOMAIN active :
         /\ active[r] \in DOMAIN bak
         /\ now - bak[active[r]].mtime > last.age

\* C10 as stated: no two create_backup calls produce the same backup path.
C10_BackupNamesUnique ==
    Cardinality(created) = ncreated

\* C37 as stated: a cleanup_old_backups call does not raise, whichever
\* backup files another process deletes while it runs.
C37_CleanupNeverRaises ==
    last.op = "cleanup_old_backups" => last.res \in {"running", "ok"}

\* C36: the active-backup table is keyed by resolved path, so it holds one
\* backup per path.  A create_backup for a path makes the entry the backup
\* just created, a copy of the file as it is; every backup file that was on
\* disk is still there, and those under another name are untouched.  No
\* other step adds or changes an entry.
C36_ActiveIsLatestBackup ==
    [][/\ ncreated' = ncreated + 1 =>
            \E r \in DOMAIN active' :
                /\ active' = Put(active, r, active'[r])
                /\ \E u \in 1..NumUids : active'[r] = backup_name(r, u)
                /\ active'[r] \in created'
                /\ active'[r] \in DOMAIN bak'
                /\ bak'[active'[r]] = fs[r]
                /\ \A n \in DOMAIN bak :
                     /\ n \in DOMAIN bak'
                     /\ n # active'[r] => bak'[n] = bak[n]
       /\ ncreated' = ncreated =>
            \A r \in DOMAIN active' : r \in DOMAIN active /\ active'[r] = active[r]
      ]_vars

\* Two backups of the same path were made; the table holds the second, and
\* the first is still on disk with the content it was made with.
C36_Witness ==
    /\ ncreated = 2
    /\ \E r \in DOMAIN active :
         /\ active[r] \in DOMAIN bak
         /\ \E n \in created \ {active[r]} :
              /\ n \in DOMAIN bak
              /\ n.rel = active[r].rel
              /\ bak[n].data # bak[active[r]].data

(***************************************************************************)
(* Properties of the fix engine.                                           *)
(***************************************************************************)

\* C5 as stated: a fix run leaves every file outside the project root as it
\* was, and an issue whose file lies outside the root is refused.
C5_NoFixOutsideRoot ==
    /\ \A f \in SrcFiles : ~IsUnder(f, Root) => src[f] = src0[f]
    /\ \A i \in 1..Len(results) :
         ~IsUnder(issue_file_path(issues[i].file), Root)
            => results[i].status \in {"failed", "skipped"}

\* C16: fix_issues returns one result per issue, result i for issue i;
\* apply_fix is called at most once per issue, in input order, and only for
\* the issue right after the last one that has its result.
C16_OneResultPerIssueInOrder ==
    /\ Len(results) <= Len(issues)
    /\ fpc = "done" => Len(results) = Len(issues)
    /\ \A i \in 1..Len(results) : results[i].issue = i
    /\ \A m, n \in 1..Len(applyLog) : m < n => applyLog[m][1] < applyLog[n][1]
    /\ \A n \in 1..Len(applyLog) : applyLog[n][1] <= Len(results) + 1
    /\ fpc \in {"loop", "done"} => \A n \in 1..Len(applyLog) : applyLog[n][1] <= Len(results)

\* fix_issues has returned for a list of two issues, both of which went
\* through apply_fix.
C16_Witness ==
    /\ fpc = "done"
    /\ Len(issues) = 2
    /\ Len(applyLog) = 2

\* C17: apply_fix is called on the first registered strategy whose can_fix
\* is true for the issue, and on no other strategy for that issue.
C17_FirstRegisteredStrategyOnly ==
    /\ \A n \in 1..Len(applyLog) :
         LET i == applyLog[n][1]
             j == applyLog[n][2]
         IN /\ j \in 1..Len(strategies)
            /\ can_fix(strategies[j], issues[i])
            /\ \A k \in 1..(j - 1) : ~can_fix(strategies[k], issues[i])
    /\ \A m, n \in 1..Len(applyLog) : applyLog[m][1] = applyLog[n][1] => m = n

\* Two strategies that both can fix the issue are registered, and the run
\* has applied the first and returned.
C17_Witness ==
    /\ fpc = "done"
    /\ Len(strategies) = 2
    /\ \E n \in 1..Len(applyLog) :
         /\ applyLog[n][2] = 1
         /\ \A k \in 1..2 : can_fix(strategies[k], issues[applyLog[n][1]])

\* C18: a result is skipped exactly when no registered strategy can fix its
\* issue, and a result is dry_run only when the engine is in dry-run mode.
C18_SkippedIffNoStrategy ==
    \A i \in 1..Len(results) :
        /\ (results[i].status = "skipped")
              <=> (\A k \in 1..Len(strategies) : ~can_fix(strategies[k], issues[i]))
        /\ results[i].status = "dry_run" => dryRun

\* With a strategy registered, one issue was skipped because the strategy
\* cannot fix it and another got a dry_run result.
C18_Witness ==
    /\ Len(strategies) >= 1
    /\ \E i, j \in 1..Len(results) :
         /\ results[i].status = "skipped"
         /\ results[j].status = "dry_run"

\* C19: an exception raised by apply_fix never leaves fix_issues: the issue
\* gets a failed result carrying the message, and the run goes on to return
\* a result for every issue.
C19_ExceptionDoesNotAbort ==
    /\ fpc \in {"loop", "check", "black", "isort", "validate", "done"}
    /\ fpc = "done" => Len(results) = Len(issues)
    /\ \A i \in 1..Len(results) :
         results[i].error = "str(e)" => results[i].status = "failed"

\* apply_fix raised for the first issue, the second issue was then fixed,
\* and fix_issues returned.
C19_Witness ==
    /\ fpc = "done"
    /\ Len(results) = 2
    /\ results[1].status = "failed" /\ results[1].error = "str(e)"
    /\ results[2].status = "success"

\* C20: in dry-run mode every file holds what it held when fix_issues was
\* called, whatever black --check reports.
C20_DryRunLeavesFiles ==
    dryRun => src = src0

\* A dry run has reported that black would reformat a file.
C20_Witness ==
    /\ dryRun
    /\ fpc = "done"
    /\ \E i \in 1..Len(results) :
         results[i].status = "dry_run" /\ results[i].changes # <<>>

\* C21 as stated: a normal-mode apply_fix that runs to its end on a file that
\* was already formatted (black and isort have nothing to change in it)
\* leaves the file as it was and reports success with an empty change list.
C21_FormatIdempotent ==
    [][(/\ fpc = "validate" /\ fpc' = "loop"
        /\ original.ok /\ original.fmt /\ original.srt
        /\ results'[Len(results')].error # "str(e)")
        => /\ src'[target] = original
           /\ results'[Len(results')].status = "success"
           /\ results'[Len(results')].changes = <<>>]_vars

(***************************************************************************)
(* Properties of handle_auto_fix, SafetyGuard and ValidationOrchestrator.  *)
(***************************************************************************)

\* C22: when a clean tree is required, the run is not a dry run and git
\* status reports changes, the call has returned the one top-level error
\* without looking for or parsing the review, no issue has a result, no
\* report is written and every file holds what it held.
C22_DirtyTreeBlocksRun ==
    (hGit # <<>> /\ hGit[1].exc = "none" /\ strip(hGit[1].stdout) # <<>>) =>
        /\ hpc = "returned"
        /\ ~hResp.ok
        /\ hResp.kind = "not_clean"
        /\ hReview = "unknown"
        /\ issues = <<>>
        /\ results = <<>>
        /\ fpc = "none"
        /\ hReport = <<>>
        /\ src = src0

\* A real run on a dirty tree was refused while a.py still needed formatting.
C22_Witness ==
    /\ hpc = "returned"
    /\ hGit = <<GitDirty, FALSE>>
    /\ hIn.require_clean_git
    /\ ~hIn.dry_run
    /\ ~src[SrcA].fmt
    /\ hResp.kind = "not_clean"

\* C23 as stated: check_git_status returns True exactly when git status ran,
\* exited with code 0 and printed nothing; not a repository, a failing
\* status command, a missing git and a timeout all give False.
C23_GitStatusFailsClosed ==
    hGit # <<>> =>
        (hGit[2] <=> (/\ hGit[1].exc = "none"
                      /\ hGit[1].rc = 0
                      /\ strip(hGit[1].stdout) = <<>>))

C26_NotValidatedIsDistinct ==
    hTest # <<>> =>
        /\ hTest[2] => (hTest[1].exc = "none" /\ hTest[1].rc = 0)
        /\ hTest[1].exc = "FileNotFoundError" =>
              \A o \in RunnerOutcomes :
                  (o.exc = "none" /\ o.rc # 0) => run_tests(o) # hTest[2]

\* C35 as stated: whenever a formatting fix in normal mode ends with status
\* failed, returned by apply_fix or made by the engine from an exception,
\* the target file holds what it held before the call.
C35_FailedFixRestoresFile ==
    [][(/\ ~dryRun
        /\ Len(results') = Len(results) + 1
        /\ results'[Len(results')].status = "failed")
       => IF fpc = "loop" THEN src' = src ELSE src'[target] = original]_vars

\* C34: total_issues is the sum of the fixed, failed, skipped and dry-run
\* counts; fix_rate is (success + dry_run) / total, and 0.0 for no results.
C34_ReportCountsAddUp ==
    /\ \A i \in 1..Len(results) :
          results[i].status \in {"success", "failed", "skipped", "dry_run"}
    /\ total_issues = fixed_count + failed_count + skipped_count + dry_run_count
    /\ IF results = <<>> THEN fix_rate = <<0, 1>>
       ELSE fix_rate[1] * total_issues = (fixed_count + dry_run_count) * fix_rate[2]

\* A dry run gave a dry_run result and a skipped or failed one.
C34_Witness ==
    /\ total_issues >= 2
    /\ dry_run_count >= 1
    /\ failed_count + skipped_count >= 1
    /\ fix_rate[1] = dry_run_count

(***************************************************************************)
(* Properties of the external processes.                                   *)
(***************************************************************************)

\* C27 as stated: whenever an operation waits for a child that never exits,
\* the wait carries a timeout, so that the operation ends with its timed-out
\* outcome instead of waiting for ever.
C27_EveryChildBounded ==
    (prPc = "waiting" /\ prChild.st = "hung") => prChild.timeout # NoTimeout

\* C29 as stated: get_git_diff starts a command only for a branch name that
\* is non-empty, made of letters, digits, dot, underscore, hyphen and slash
\* only, and does not begin with a hyphen; for every other name it raises
\* ValueError with no command started.
C29_BranchNameAllowList ==
    LET Allowed(b) ==
            /\ b # <<>>
            /\ \A i \in 1..Len(b) : b[i] \in BranchRest
            /\ b[1] # "-"
    IN (prOp # <<>> /\ prOp[1] = "get_git_diff" /\ ~Allowed(prOp[2])) =>
           (prOut = "ValueError" /\ prSpawned = 0)

(***************************************************************************)
(* Properties of the issue extractors.                                     *)
(***************************************************************************)

\* C30 as stated: when the blocks of the review outside code fences differ
\* pairwise in severity, file, line or wording, each extractor returns as
\* many issues as there are such blocks.
C30_OneIssuePerBlock ==
    LET blocks == strip_code_blocks(psReview.blocks)
    IN (/\ psOp # "none"
        /\ psReview.style \in Styles
        /\ \A i, j \in 1..Len(blocks) : i # j => blocks[i] # blocks[j])
       => Len(psOut) = Len(blocks)

C32_SecurityKeywordIsManual ==
    psOp = "parse"
    => \A i \in 1..Len(psOut) :
         LET text == lower(psOut[i].problem)
             security ==
                 \/ Contains(text, <<"s", "e", "c", "u", "r", "i", "t", "y">>)
                 \/ Contains(text, <<"v", "u", "l", "n", "e", "r", "a", "b",
                                     "i", "l", "i", "t", "y">>)
                 \/ Contains(text, <<"i", "n", "j", "e", "c", "t", "i", "o", "n">>)
             formatting ==
                 \E k \in 1..Len(AUTO_FIX_KEYWORDS) :
                    Contains(text, AUTO_FIX_KEYWORDS[k])
         IN /\ security => psOut[i].fix_type = "manual"
            /\ (formatting /\ ~security) => psOut[i].fix_type = "auto"

\* C33 as stated: an empty review, and a review whose severity words stand
\* in running prose only (inside a sentence or at its start), give no issue.
C33_NoIssueFromProse ==
    (psOp # "none" /\ (psReview.blocks = <<>> \/ psReview.style \in ProseStyles))
    => psOut = <<>>

(***************************************************************************)
(* Properties of review_story and handle_review_story.                     *)
(***************************************************************************)

\* C28: a review whose diff generation failed reports has_critical_issues
\* true and recommends in-progress.  The handler leaves the story's status
\* alone until it has a result; when it returns, the status is done exactly
\* if the diff was generated, the LLM returned the review and no parsed
\* issue has severity CRITICAL, and in-progress otherwise; when call_llm
\* raises, the status stays what it was and no review file is written.
C28_ReviewFailsClosed ==
    /\ rvDiff = "fail"
       => /\ rvResult # <<>>
          /\ rvResult[1].has_critical_issues
          /\ rvResult[1].recommendation = "in-progress"
    /\ rvPc = "returned"
       => rvStatus =
            IF /\ rvDiff = "ok"
               /\ rvLlm = "returned"
               /\ rvSaved # <<>>
               /\ rvSaved[1].kind = "llm"
               /\ \A i \in 1..Len(rvResult[1].structured_issues) :
                     rvResult[1].structured_issues[i].severity # "CRITICAL"
            THEN "done" ELSE "in-progress"
    /\ rvPc # "returned" => rvStatus = rvIn.status0
    /\ rvLlm = "raised" => rvPc = "raised" /\ rvSaved = <<>>

\* A story under review was set to done after a review that found issues,
\* none of them CRITICAL.
C28_Witness ==
    /\ rvPc = "returned"
    /\ rvIn.status0 = "review"
    /\ rvStatus = "done"
    /\ rvResult[1].structured_issues # <<>>

(***************************************************************************)
(* Properties of handle_execute_implementation.                            *)
(***************************************************************************)

\* The story file, the design plan and the validation report exist, and the
\* report's status is PASS.
ExecReady ==
    /\ exIn.key_ok
    /\ exIn.story
    /\ exIn.plan
    /\ exIn.report # <<>>
    /\ plan_validation_passed(exIn.report[1])

\* C40 as stated: handle_execute_implementation moves the story to executing
\* when the story file, the design plan and the validation report exist and
\* the report's status is PASS, and only then; in every other case it
\* returns a failure response and the stored status is as before.
C40_ExecutesValidatedPlanOnly ==
    exPc = "returned" =>
        IF ExecReady
        THEN exResp[1].ok /\ exStatus = "executing"
        ELSE ~exResp[1].ok /\ exStatus = exIn.status0

(***************************************************************************)
(* Properties of the aggregate views.                                      *)
(***************************************************************************)

\* C15 as stated: each view includes a key exactly when the key is two
\* non-empty all-digit segments, each followed by a hyphen, then a non-empty
\* suffix, and the key matches the requested status or epic; the summary
\* counts exactly those keys.
C15_ViewsKeepStoryKeysOnly ==
    LET Digit(c) == \E d \in 1..Len(DigitChars) : DigitChars[d] = c
        Shape(key) ==
            \E i, j \in 1..Len(key) :
                /\ 1 < i /\ i + 1 < j /\ j < Len(key)
                /\ key[i] = "-" /\ key[j] = "-"
                /\ \A n \in 1..(j - 1) : n # i => Digit(key[n])
        Rows == 1..Len(viewDev)
        Key(r) == viewDev[r][1]
        Status(r) == viewDev[r][2]
    IN /\ viewOp[1] = "get_stories_by_status" =>
            \A r \in Rows :
                (\E n \in 1..Len(viewOut) : viewOut[n] = Key(r))
                    <=> (Shape(Key(r)) /\ Status(r) = viewOp[2])
       /\ viewOp[1] = "get_stories_for_epic" =>
            \A r \in Rows :
                (\E n \in 1..Len(viewOut) : viewOut[n] = viewDev[r])
                    <=> (Shape(Key(r)) /\ startswith(Key(r), epic_prefix(viewOp[2])))
       /\ viewOp[1] = "get_status_summary" =>
            \A st \in ViewStatuses :
                LET n == Cardinality({r \in Rows : Shape(Key(r)) /\ Status(r) = st})
                IN IF n = 0 THEN \A m \in 1..Len(viewOut) : viewOut[m][1] # st
                   ELSE \E m \in 1..Len(viewOut) : viewOut[m] = <<st, n>>

====
